---------------------------- MODULE Spec2Model ----------------------------
(***************************************************************************)
(* A model of the bsa archive codec: the TES4-family reader of the         *)
(* tes4-bsa crate (RawArchive, its entry iterator and its extraction       *)
(* strategies), the TES4-family reader and writer of the bsa crate         *)
(* (BsaArchive, BsaWriter), the TES3 writer and reader, the TES4 and TES3  *)
(* hash functions and the FO4 BA2 readers.  Every subsystem has its own    *)
(* specification over the shared variables; the variables a specification  *)
(* does not use keep their idle value.                                     *)
(***************************************************************************)
EXTENDS Integers, Sequences, FiniteSets, TLC

VARIABLES
    dirs,       \* RawArchive.dirs: the directory model of the opened archive
    it_index,   \* Entries.index: Option<Index>, the iterator's cursor
    it_out,     \* the indices the iterator has yielded so far, in order
    it_pc,      \* "new": entries() not called yet, "iter", "done": next() returned None
    overflow_checks, \* the build: TRUE when `+` on integers panics on overflow (debug profile)
    h_in,       \* the argument of a hash function: a sequence of characters
    h_fn,       \* the hash function that was called on h_in, "idle" before the call
    h_out,      \* what the call did: [k |-> "some", h |-> hash], "none" or "panic"
    w_fmt,      \* the format parameter A of BsaWriter<A> and BsaArchive<A, R>
    w_writer,   \* the BsaWriter
    w_pc,       \* "building", "written" after write_to, "panicked" after a panic in add
    w_sink,     \* the bytes of the sink write_to has written to
    r_archive,  \* what BsaArchive::new returned on the sink's bytes, "none" before
    r_entry,    \* the last entry opened: its index and what reading it gave
    t_writer,   \* the Tes3Writer
    t_pc,       \* "building", "written" after write_to
    t_sink,     \* the bytes of the sink write_to has written to
    t_bsa,      \* what Tes3Archive::new returned on the sink's bytes, "none" before
    t_names,    \* what entries() yielded last, "none" before
    t_entry,    \* the last open_by_name: the name and what reading the entry gave
    r_raw,      \* what RawArchive::new returned on the sink's bytes, "none" before
    x_pos,      \* the position of the reader inside the RawArchive
    x_borrowed, \* whether the RefCell of the reader is mutably borrowed
    x_failed,   \* whether an extraction from the RawArchive has failed yet
    e_pc,       \* the driver of extractN: "idle", "sweep", "recv", "join", "par", "done"
    e_strategy, \* the N of the extractN that was called, 0 before
    e_at,       \* the driver's position in its sweep, an index of its plan
    e_queue,    \* the jobs of the thread pool that no worker has taken yet
    e_running,  \* the jobs the workers (or the parallel iterator) are running
    e_unc,      \* the channel of decompressed files of strategy 3
    e_writes,   \* the jobs of the write pool of strategy 3
    e_errors,   \* the error channel: the errors sent and not received
    e_fs,       \* the output directory: its directories and its files
    e_bad,      \* the paths the file system refuses to create
    e_result,   \* what extractN returned, "none" before
    e_hist,     \* what has happened: an error, a job enqueued after it, a panic
    f_bytes,    \* the bytes of the FO4 archive that is opened
    f_reader,   \* the reader that opened it: "fo4-ba2" or "gen0", "new" before
    f_open,     \* what opening returned, and the chunk-data records it read
    f_names     \* what entries() yielded: the name of every entry, "none" before

varsIter == <<dirs, it_index, it_out, it_pc>>
varsHash == <<overflow_checks, h_in, h_fn, h_out>>

varsTes4 == <<w_fmt, w_writer, w_pc, w_sink, r_archive, r_entry>>

varsTes3 == <<t_writer, t_pc, t_sink, t_bsa, t_names, t_entry>>

varsRaw == <<r_raw, x_pos, x_borrowed, x_failed>>

varsExt == <<e_pc, e_strategy, e_at, e_queue, e_running, e_unc, e_writes, e_errors,
             e_fs, e_bad, e_result, e_hist>>

varsFo4 == <<f_bytes, f_reader, f_open, f_names>>

vars == <<varsIter, varsHash, varsTes4, varsTes3, varsRaw, varsExt, varsFo4>>

\* What each specification leaves alone: the variables of the other subsystems.
othersIter == <<varsHash, varsTes4, varsTes3, varsRaw, varsExt, varsFo4>>
othersHash == <<varsIter, varsTes4, varsTes3, varsRaw, varsExt, varsFo4>>
othersTes4 == <<varsIter, varsHash, varsTes3, varsRaw, varsExt, varsFo4>>
othersTes3 == <<varsIter, varsHash, varsTes4, varsRaw, varsExt, varsFo4>>
othersRead == <<varsIter, varsHash, varsTes3, varsExt, varsFo4>>
othersExt == <<varsIter, varsHash, varsTes3, w_fmt, w_writer, w_pc, w_sink, r_archive, r_entry,
               r_raw, varsFo4>>
othersFo4 == <<varsIter, varsHash, varsTes4, varsTes3, varsRaw, varsExt>>

(***************************************************************************)
(* Option<T>: None is the empty tuple, Some(x) the one-element tuple.      *)
(***************************************************************************)
None == <<>>
Some(x) == <<x>>
IsSome(o) == Len(o) = 1
Unwrap(o) == o[1]

\* Bounds of the archives the iterator specification enumerates.
MaxDirs == 3
MaxFilesPerDir == 2

(***************************************************************************)
(* Sequences over S of length 0..n.                                        *)
(***************************************************************************)
SeqUpTo(S, n) == UNION {[1..k -> S] : k \in 0..n}

(***************************************************************************)
(* The entry iterator of the tes4-bsa crate.  An Index is the pair         *)
(* (folder, file), both counted from 0 as in the source.                   *)
(***************************************************************************)
Index(folder, file) == [folder |-> folder, file |-> file]

\* BsaArchive::entries: the cursor starts at file 0 of the first directory
\* that has files, or at None when there is none.
EntriesStart(ds) ==
    IF \E i \in 1..Len(ds) : Len(ds[i].files) > 0
    THEN LET i == CHOOSE k \in 1..Len(ds) :
                    /\ Len(ds[k].files) > 0
                    /\ \A j \in 1..(k - 1) : Len(ds[j].files) = 0
         IN Some(Index(i - 1, 0))
    ELSE None

\* EntriesImpl::next for RawArchive: the loop of the source, one iteration
\* per recursive call.  `file += 1` runs at the top of every iteration, also
\* right after the cursor has been moved to (folder + 1, 0).
RECURSIVE RawNext(_, _)
RawNext(ds, index) ==
    IF index.folder >= Len(ds)
    THEN None
    ELSE LET file1 == index.file + 1
         IN IF file1 < Len(ds[index.folder + 1].files)
            THEN Some(Index(index.folder, file1))
            ELSE RawNext(ds, Index(index.folder + 1, 0))

\* A directory of the iterator specification: only the number of files matters.
IterDir(n) == [name |-> <<>>, files |-> [j \in 1..n |-> [name |-> <<j>>]]]

IdleIter == dirs = <<>> /\ it_index = None /\ it_out = <<>> /\ it_pc = "idle"
IdleHash == overflow_checks = FALSE /\ h_in = <<>> /\ h_fn = "off" /\ h_out = [k |-> "idle"]

IdleTes4 ==
    /\ w_fmt = "off" /\ w_writer = "off" /\ w_pc = "off" /\ w_sink = <<>>
    /\ r_archive = [k |-> "off"] /\ r_entry = [k |-> "off"]

IdleTes3 ==
    /\ t_writer = "off" /\ t_pc = "off" /\ t_sink = <<>>
    /\ t_bsa = [k |-> "off"] /\ t_names = [k |-> "off"] /\ t_entry = [k |-> "off"]

IdleRaw ==
    /\ r_raw = [k |-> "off"] /\ x_pos = 0 /\ x_borrowed = FALSE /\ x_failed = FALSE

IdleExt ==
    /\ e_pc = "off" /\ e_strategy = 0 /\ e_at = 0 /\ e_queue = <<>> /\ e_running = {}
    /\ e_unc = <<>> /\ e_writes = {} /\ e_errors = <<>> /\ e_fs = "off" /\ e_bad = {}
    /\ e_result = [k |-> "off"] /\ e_hist = "off"

IdleFo4 ==
    /\ f_bytes = <<>> /\ f_reader = "off" /\ f_open = [k |-> "off"] /\ f_names = [k |-> "off"]

IdleNotIter == IdleHash /\ IdleTes4 /\ IdleTes3 /\ IdleRaw /\ IdleExt /\ IdleFo4
IdleNotHash == IdleIter /\ IdleTes4 /\ IdleTes3 /\ IdleRaw /\ IdleExt /\ IdleFo4
IdleNotTes4 == IdleIter /\ IdleHash /\ IdleTes3 /\ IdleRaw /\ IdleExt /\ IdleFo4
IdleNotTes3 == IdleIter /\ IdleHash /\ IdleTes4 /\ IdleRaw /\ IdleExt /\ IdleFo4
IdleNotRead == IdleIter /\ IdleHash /\ IdleTes3 /\ IdleExt /\ IdleFo4
IdleNotExt == IdleIter /\ IdleHash /\ IdleTes3 /\ IdleFo4
IdleNotFo4 == IdleIter /\ IdleHash /\ IdleTes4 /\ IdleTes3 /\ IdleRaw /\ IdleExt

InitIter ==
    /\ IdleNotIter
    /\ dirs \in {[i \in 1..Len(c) |-> IterDir(c[i])] :
                    c \in SeqUpTo(0..MaxFilesPerDir, MaxDirs)}
    /\ it_index = None
    /\ it_out = <<>>
    /\ it_pc = "new"

\* archive.entries()
EntriesCall ==
    /\ it_pc = "new"
    /\ it_index' = EntriesStart(dirs)
    /\ it_pc' = "iter"
    /\ UNCHANGED <<dirs, it_out, othersIter>>

\* Entries::next (bsa-core): yield the cursor and advance it, or end.
EntriesNext ==
    /\ it_pc = "iter"
    /\ IF IsSome(it_index)
       THEN /\ it_out' = Append(it_out, Unwrap(it_index))
            /\ it_index' = RawNext(dirs, Unwrap(it_index))
            /\ it_pc' = "iter"
       ELSE /\ it_pc' = "done"
            /\ UNCHANGED <<it_index, it_out>>
    /\ UNCHANGED <<dirs, othersIter>>

NextIter == EntriesCall \/ EntriesNext

SpecIter == InitIter /\ [][NextIter]_vars

(***************************************************************************)
(* C1.  Iterating entries() yields every file of every non-empty directory *)
(* exactly once, in directory order and in file-record order from file 0   *)
(* of each directory; when the iteration has ended the yielded indices are *)
(* exactly the archive's (folder, file) pairs in that order.               *)
(***************************************************************************)
RECURSIVE AllIndices(_, _)
AllIndices(ds, k) ==
    IF k > Len(ds) THEN <<>>
    ELSE [j \in 1..Len(ds[k].files) |-> Index(k - 1, j - 1)] \o AllIndices(ds, k + 1)

C1_EntriesYieldEveryFileOnce ==
    it_pc = "done" => it_out = AllIndices(dirs, 1)


(***************************************************************************)
(* Bytes and 32-bit words.  A byte string is a sequence over 0..255.  A    *)
(* u32 is the pair <<hi, lo>> of its 16-bit halves, so that no value of    *)
(* the model leaves the range of the checker's integers.                   *)
(***************************************************************************)
Min(a, b) == IF a < b THEN a ELSE b
IsAscii(s) == \A i \in 1..Len(s) : s[i] < 128
Contains(s, b) == \E i \in 1..Len(s) : s[i] = b
\* The position of the first (last) b in s, 0 when there is none.
FirstPos(s, b) ==
    IF Contains(s, b)
    THEN CHOOSE i \in 1..Len(s) : s[i] = b /\ \A j \in 1..(i - 1) : s[j] # b
    ELSE 0
LastPos(s, b) ==
    IF Contains(s, b)
    THEN CHOOSE i \in 1..Len(s) : s[i] = b /\ \A j \in (i + 1)..Len(s) : s[j] # b
    ELSE 0
Rep(b, n) == [i \in 1..n |-> b]

\* crc32's multiplier, const K: u32 = 0x1003f.
CrcK == 65599

\* One round of crc32: crc.wrapping_mul(K) + byte.  The product wraps; the
\* sum is a plain `+`, which wraps in a release build and panics in a build
\* with overflow checks.  v is the wrapped value, ovf whether the sum left u32.
Crc32Step(crc, byte) ==
    LET lo == crc[2] * (CrcK % 65536)
        hi == crc[1] * (CrcK % 65536) + crc[2] * (CrcK \div 65536) + (lo \div 65536)
        mlo == lo % 65536
        mhi == hi % 65536
        slo == mlo + byte
        shi == mhi + (slo \div 65536)
    IN [v |-> <<shi % 65536, slo % 65536>>, ovf |-> shi >= 65536]

\* One round on the loop's state: the crc so far, with whether a sum has
\* left u32 yet.
Crc32Round(acc, byte) ==
    [v |-> Crc32Step(acc.v, byte).v, ovf |-> acc.ovf \/ Crc32Step(acc.v, byte).ovf]

\* crc32's loop over bytes lo..hi from the state acc: the rounds of the
\* first half of the range, then those of the second half.
RECURSIVE Crc32From(_, _, _, _)
Crc32From(bytes, lo, hi, acc) ==
    IF acc.ovf \in BOOLEAN /\ lo > hi THEN acc
    ELSE IF lo = hi THEN Crc32Round(acc, bytes[lo])
    ELSE Crc32From(bytes, (lo + hi) \div 2 + 1, hi,
                   Crc32From(bytes, lo, (lo + hi) \div 2, acc))

\* fn crc32(bytes: &[u8]) -> u32, the same in both crates.
Crc32(bytes) == Crc32From(bytes, 1, Len(bytes), [v |-> <<0, 0>>, ovf |-> FALSE])

\* u32::wrapping_add
WrappingAdd32(a, b) ==
    LET lo == a[2] + b[2]
    IN <<(a[1] + b[1] + (lo \div 65536)) % 65536, lo % 65536>>

(***************************************************************************)
(* What a call of a hash function does: it returns Some(hash), returns     *)
(* None, or panics.                                                        *)
(***************************************************************************)
HSome(h) == [k |-> "some", h |-> h]
HNone == [k |-> "none"]
HPanic == [k |-> "panic"]

\* The fields common to Hash::from_dirname and hash_directory_name_unchecked:
\* last, last2, len (as u8), first and the crc of name[1..len-2].
DirHashFields(name) ==
    LET n == Len(name)
        c == IF 3 <= n THEN Crc32(SubSeq(name, 2, n - 2)) ELSE Crc32(<<>>)
    IN [h |-> [last |-> IF n > 0 THEN name[n] ELSE 0,
               last2 |-> IF 3 <= n THEN name[n - 1] ELSE 0,
               len |-> n % 256,
               first |-> IF n > 0 THEN name[1] ELSE 0,
               crc |-> c.v],
        ovf |-> c.ovf]

\* The extension table of the file-name hash: "" 0, .nif 1, .kf 2, .dds 3,
\* .wav 4, .adp 5; -1 for any other extension.
ExtIndex(ext) ==
    CASE ext = <<>> -> 0
      [] ext = <<46, 110, 105, 102>> -> 1
      [] ext = <<46, 107, 102>> -> 2
      [] ext = <<46, 100, 100, 115>> -> 3
      [] ext = <<46, 119, 97, 118>> -> 4
      [] ext = <<46, 97, 100, 112>> -> 5
      [] OTHER -> -1

\* What the table index i adds to first, last and last2, as u8 arithmetic:
\* 32 * (i & 0xfc), (i & 0xfe) << 6 and i << 7, the shifts dropping the bits
\* that leave the byte; nothing is added for an extension outside the table.
StirExtension(i) ==
    IF i < 0 THEN [first |-> 0, last |-> 0, last2 |-> 0]
    ELSE [first |-> 32 * ((i \div 4) * 4),
          last |-> (((i \div 2) * 2) * 64) % 256,
          last2 |-> (i * 128) % 256]

(***************************************************************************)
(* The hash functions of the bsa crate (src/tes4/mod.rs), on byte strings. *)
(***************************************************************************)
\* Hash::from_dirname
FromDirname(name) ==
    IF Len(name) >= 255 \/ ~IsAscii(name) \/ Contains(name, 0)
    THEN HNone
    ELSE LET f == DirHashFields(name)
         IN IF f.ovf /\ overflow_checks THEN HPanic ELSE HSome(f.h)

\* path::split_extension of the bsa crate: the split is at the FIRST dot.
SplitExtensionFirst(bytes) ==
    LET i == FirstPos(bytes, 46)
    IN IF i = 0 THEN <<bytes, <<>>>>
       ELSE <<SubSeq(bytes, 1, i - 1), SubSeq(bytes, i, Len(bytes))>>

\* `+=` on u8, before the check that the sum is still a byte.
PlainAdd8(a, b) == a + b

\* Hash::from_filename: from_dirname(stem).unwrap(), then the crc of the
\* extension is added and the table index stirred in with plain `+=`.
FromFilename(base_name) ==
    LET sp == SplitExtensionFirst(base_name)
        stem == sp[1]
        ext == sp[2]
    IN IF stem # <<>> /\ Len(stem) < 260 /\ Len(ext) < 16
       THEN LET d == FromDirname(stem)
                e == Crc32(ext)
            IN IF d.k # "some" \/ (e.ovf /\ overflow_checks)
               THEN HPanic
               ELSE LET x == StirExtension(ExtIndex(ext))
                        h == [d.h EXCEPT !.crc = WrappingAdd32(d.h.crc, e.v),
                                         !.first = PlainAdd8(d.h.first, x.first),
                                         !.last = PlainAdd8(d.h.last, x.last),
                                         !.last2 = PlainAdd8(d.h.last2, x.last2)]
                    IN IF (h.first > 255 \/ h.last > 255 \/ h.last2 > 255)
                       THEN IF overflow_checks THEN HPanic
                            ELSE HSome([h EXCEPT !.first = h.first % 256,
                                                 !.last = h.last % 256,
                                                 !.last2 = h.last2 % 256])
                       ELSE HSome(h)
       ELSE HNone

(***************************************************************************)
(* The hash functions of the tes4-bsa crate (hash.rs), on strings: a       *)
(* string is a sequence of characters, a character its code point.         *)
(***************************************************************************)
MAX_PATH == 260
U8Max == 255

\* A char::to_lowercase that keeps every character as it is.
KeepCase(ch) == <<ch>>

\* char::to_lowercase, as the sequence of characters it yields.
ToLowercase(ch) ==
    IF ch \in 65..90 \/ (ch \in 192..222 /\ ch # 215) THEN <<ch + 32>> ELSE <<ch>>

\* windows_1252::encode: ASCII and U+00A0..U+00FF encode as themselves, the
\* euro sign as 0x80; a character outside the table does not encode.
Encode(ch) ==
    IF ch < 128 \/ ch \in 160..255 THEN Some(ch)
    ELSE IF ch = 8364 THEN Some(128)
    ELSE None

\* The concatenation of the sequences of ss.
RECURSIVE Flatten(_)
Flatten(ss) ==
    IF Len(ss) = 0 THEN <<>>
    ELSE IF Len(ss) = 1 THEN ss[1]
    ELSE LET m == Len(ss) \div 2
         IN Flatten(SubSeq(ss, 1, m)) \o Flatten(SubSeq(ss, m + 1, Len(ss)))

\* for ch in name.chars().flat_map(char::to_lowercase) { encode(ch).ok()? }:
\* the bytes of the lowercased characters of s, or None when one of them
\* does not encode.
EncodeLower(s) ==
    LET lower == Flatten([i \in 1..Len(s) |-> ToLowercase(s[i])])
    IN IF \A i \in 1..Len(lower) : IsSome(Encode(lower[i]))
       THEN Some([i \in 1..Len(lower) |-> Unwrap(Encode(lower[i]))])
       ELSE None

IsSeparator(ch) == ch = 92 \/ ch = 47

\* path.split(separator): characters a..b of path are one of its components,
\* seps being the separators.
IsComponent(path, a, b, seps) ==
    /\ a <= b
    /\ \A k \in a..b : path[k] \notin seps
    /\ a = 1 \/ path[a - 1] \in seps
    /\ b = Len(path) \/ path[b + 1] \in seps

\* What normalize_path's loop pushes to buf at character i: nothing for a
\* separator, else the encoded lowercase of the character, after a backslash
\* when the character begins a component and buf is not empty.
NormalizedAt(path, i) ==
    IF IsSeparator(path[i]) THEN <<>>
    ELSE (IF /\ i > 1
             /\ IsSeparator(path[i - 1])
             /\ \E j \in 1..(i - 1) : ~IsSeparator(path[j])
          THEN <<92>> ELSE <<>>)
         \o Unwrap(EncodeLower(<<path[i]>>))

\* fn normalize_path(path: &str) -> Option<Vec<u8>>: None for a leading
\* separator, a "." or ".." component or a character that does not encode.
NormalizePath(path) ==
    IF path # <<>> /\ IsSeparator(path[1]) THEN None
    ELSE IF \E a \in 1..Len(path) : \E b \in {a, a + 1} \cap (1..Len(path)) :
                IsComponent(path, a, b, {92, 47}) /\ \A k \in a..b : path[k] = 46
    THEN None
    ELSE IF \E i \in 1..Len(path) :
                ~IsSeparator(path[i]) /\ ~IsSome(EncodeLower(<<path[i]>>))
    THEN None
    ELSE Some(Flatten([i \in 1..Len(path) |-> NormalizedAt(path, i)]))

\* fn split_extension of hash.rs: the split is at the LAST dot.
SplitExtension(name) ==
    LET i == LastPos(name, 46)
    IN IF i = 0 THEN <<name, <<>>>>
       ELSE <<SubSeq(name, 1, i - 1), SubSeq(name, i, Len(name))>>

\* fn split_path: (parent, name) around the last backslash.
SplitPath(path) ==
    LET i == LastPos(path, 92)
    IN IF i = 0 THEN <<<<>>, path>>
       ELSE <<SubSeq(path, 1, i - 1), SubSeq(path, i + 1, Len(path))>>

\* u8::wrapping_add
WrappingAdd8(a, b) == (a + b) % 256

\* hash_directory_name_unchecked, with whether its crc32 overflowed.
HashDirectoryNameUnchecked(name) == DirHashFields(name)

\* hash_file_name_unchecked, with whether one of its crc32 calls overflowed.
HashFileNameUnchecked(stem, extension) ==
    LET d == HashDirectoryNameUnchecked(stem)
        e == Crc32(extension)
        x == StirExtension(ExtIndex(extension))
    IN [h |-> [d.h EXCEPT !.crc = WrappingAdd32(d.h.crc, e.v),
                          !.first = WrappingAdd8(d.h.first, x.first),
                          !.last = WrappingAdd8(d.h.last, x.last),
                          !.last2 = WrappingAdd8(d.h.last2, x.last2)],
        ovf |-> d.ovf \/ e.ovf]

\* What a call that computed h does in the build at hand: the overflow of a
\* plain `+` in crc32 is a panic when the build checks overflow.
Computed(ovf, h) == IF ovf /\ overflow_checks THEN HPanic ELSE HSome(h)

\* pub fn hash_directory_name(path: &str) -> Option<Hash>
HashDirectoryName(path) ==
    LET p == NormalizePath(path)
    IN IF ~IsSome(p) THEN HNone
       ELSE IF Unwrap(p) = <<>> \/ MAX_PATH <= Len(Unwrap(p)) THEN HNone
       ELSE LET d == HashDirectoryNameUnchecked(Unwrap(p))
            IN Computed(d.ovf, d.h)

\* pub fn hash_file_name(name: &str) -> Option<Hash>
HashFileName(name) ==
    IF \E i \in 1..Len(name) : IsSeparator(name[i]) THEN HNone
    ELSE LET e == EncodeLower(name)
         IN IF ~IsSome(e) THEN HNone
            ELSE LET sp == SplitExtension(Unwrap(e))
                 IN IF sp[1] = <<>> \/ MAX_PATH <= Len(sp[1]) \/ 16 <= Len(sp[2])
                    THEN HNone
                    ELSE LET f == HashFileNameUnchecked(sp[1], sp[2])
                         IN Computed(f.ovf, f.h)

\* pub fn hash_file_path(path: &str) -> Option<(Hash, Hash)>
HashFilePath(path) ==
    LET p == NormalizePath(path)
    IN IF ~IsSome(p) THEN HNone
       ELSE LET dn == SplitPath(Unwrap(p))
                sp == SplitExtension(dn[2])
            IN IF \/ dn[1] = <<>>
                  \/ sp[1] = <<>>
                  \/ MAX_PATH <= Len(sp[1])
                  \/ MAX_PATH <= Len(dn[1])
                  \/ 16 <= Len(sp[2])
               THEN HNone
               ELSE LET d == HashDirectoryNameUnchecked(dn[1])
                        f == HashFileNameUnchecked(sp[1], sp[2])
                    IN Computed(d.ovf \/ f.ovf, <<d.h, f.h>>)

(***************************************************************************)
(* The hash specification: one call of one hash function on one input, in  *)
(* a build with or without overflow checks.                                *)
(***************************************************************************)
MaxNameLen == 3

\* a, B, '.', '\', '/', e-acute, NUL and a character outside Windows-1252.
HashAlphabet == {97, 66, 46, 92, 47, 233, 0, 128640}

\* Names around the length limits (254, 255, 259, 260 characters, with and
\* without an extension), a name whose crc32 leaves u32 in the sum, and a
\* path of 401 characters with a directory and a file name of 200 each.
LongNames ==
    {Rep(97, n) \o e : n \in {U8Max - 1, U8Max, MAX_PATH - 1, MAX_PATH},
                       e \in {<<>>, <<46, 100, 100, 115>>}}
    \cup {<<120, 100, 111, 113, 113, 107, 116, 97, 121, 122>> \o e :
              e \in {<<>>, <<46, 110, 105, 102>>}}
    \cup {<<97, 92>> \o <<120, 100, 111, 113, 113, 107, 116, 97, 121, 122>>}
    \cup {Rep(97, MAX_PATH - 60) \o <<92>> \o Rep(97, MAX_PATH - 60)}

\* fxambblowingfog01.nif, dog.dds and meshes/DUNGEONS\\\mines\CAVEshaft/
ExampleNames ==
    {<<102, 120, 97, 109, 98, 98, 108, 111, 119, 105, 110, 103, 102, 111, 103, 48, 49,
       46, 110, 105, 102>>,
     <<100, 111, 103, 46, 100, 100, 115>>,
     <<109, 101, 115, 104, 101, 115, 47, 68, 85, 78, 71, 69, 79, 78, 83, 92, 92, 92,
       109, 105, 110, 101, 115, 92, 67, 65, 86, 69, 115, 104, 97, 102, 116, 47>>}

IsBytes(s) == \A i \in 1..Len(s) : s[i] \in 0..255

InitHash ==
    /\ IdleNotHash
    /\ overflow_checks \in BOOLEAN
    /\ h_in \in SeqUpTo(HashAlphabet, MaxNameLen) \cup LongNames \cup ExampleNames
    /\ h_fn = "new"
    /\ h_out = [k |-> "new"]

CallHash(fn, out) ==
    /\ h_fn = "new"
    /\ h_fn' = fn
    /\ h_out' = out
    /\ UNCHANGED <<overflow_checks, h_in, othersHash>>

CallFromDirname == IsBytes(h_in) /\ CallHash("from_dirname", FromDirname(h_in))
CallFromFilename == IsBytes(h_in) /\ CallHash("from_filename", FromFilename(h_in))
CallHashDirectoryName == CallHash("hash_directory_name", HashDirectoryName(h_in))
CallHashFileName == CallHash("hash_file_name", HashFileName(h_in))
CallHashFilePath == CallHash("hash_file_path", HashFilePath(h_in))

\* The character ch in the other case, for the letters of Windows-1252
\* whose other case is a single character of Windows-1252.
OtherCase(ch) ==
    IF ch \in 97..122 \/ (ch \in 224..254 /\ ch # 247) THEN ch - 32
    ELSE IF ch \in 65..90 \/ (ch \in 192..222 /\ ch # 215) THEN ch + 32
    ELSE ch

\* The string of the Windows-1252 bytes b.
Decode1252(b) == [i \in 1..Len(b) |-> IF b[i] = 128 THEN 8364 ELSE b[i]]

\* The last position of a path at which a variant of it may differ.
MaxEditPos == 34

\* The paths that differ from path by one step that the claim calls
\* equivalent: a separator of the other kind, a separator more or less in
\* a run or at the end, a letter in the other case; and the canonical
\* form of path, lowercase and joined by backslashes.
Variants(path) ==
    {[path EXCEPT ![i] = IF @ = 92 THEN 47 ELSE 92] :
        i \in {i \in 1..Min(Len(path), MaxEditPos) : IsSeparator(path[i])}}
    \cup {SubSeq(path, 1, i) \o <<c>> \o SubSeq(path, i + 1, Len(path)) :
            i \in {i \in 1..Min(Len(path), MaxEditPos) : IsSeparator(path[i])},
            c \in {92, 47}}
    \cup {SubSeq(path, 1, i - 1) \o SubSeq(path, i + 1, Len(path)) :
            i \in {i \in 2..Min(Len(path), MaxEditPos) :
                      IsSeparator(path[i]) /\ IsSeparator(path[i - 1])}}
    \cup {path \o <<c>> : c \in {92, 47}}
    \cup {SubSeq(path, 1, Len(path) - 1) :
            i \in {i \in {Len(path)} : i > 1 /\ IsSeparator(path[i])}}
    \cup {[path EXCEPT ![i] = OtherCase(@)] : i \in 1..Min(Len(path), MaxEditPos)}
    \cup {Decode1252(Unwrap(n)) : n \in {n \in {NormalizePath(path)} : IsSome(n)}}

\* A second call of hash_directory_name, on a variant v of the path that
\* the first call has hashed.
CallHashDirectoryNameAgain(v) ==
    /\ h_fn = "hash_directory_name"
    /\ h_out.k = "some"
    /\ v \in Variants(h_in)
    /\ h_fn' = "hash_directory_name again"
    /\ h_out' = [k |-> "again", of |-> h_out, v |-> v, out |-> HashDirectoryName(v)]
    /\ UNCHANGED <<overflow_checks, h_in, othersHash>>

NextHash ==
    \/ CallFromDirname
    \/ CallFromFilename
    \/ CallHashDirectoryName
    \/ CallHashFileName
    \/ CallHashFilePath
    \/ \E v \in Variants(h_in) : CallHashDirectoryNameAgain(v)

SpecHash == InitHash /\ [][NextHash]_vars

(***************************************************************************)
(* C10.  No TES4 hash function panics, whatever its input: every call      *)
(* returns a hash or "none".                                               *)
(***************************************************************************)
C10_HashFunctionsNeverPanic == h_out.k # "panic"

\* What does hold: the functions of hash.rs do not panic in a build without
\* overflow checks.
HashRsNeverPanicsInRelease ==
    (~overflow_checks /\ h_fn \in {"hash_directory_name", "hash_file_name", "hash_file_path"})
        => h_out.k # "panic"

\* The file-name hash of the claim for a lowercased base name: the split at
\* the last dot, the directory-style hash of the stem, and the extension
\* added to crc, first, last and last2, wrapping.
ReferenceFileHash(name) ==
    LET dot == LastPos(name, 46)
        stem == IF dot = 0 THEN name ELSE SubSeq(name, 1, dot - 1)
        ext == IF dot = 0 THEN <<>> ELSE SubSeq(name, dot, Len(name))
        n == Len(stem)
        i == IF ExtIndex(ext) < 0 THEN 0 ELSE ExtIndex(ext)
    IN [stem |-> stem, ext |-> ext,
        h |-> [last |-> (stem[n] + ((i \div 2) * 2) * 64) % 256,
               last2 |-> ((IF n >= 3 THEN stem[n - 1] ELSE 0) + i * 128) % 256,
               len |-> n % 256,
               first |-> (stem[1] + 32 * ((i \div 4) * 4)) % 256,
               crc |-> WrappingAdd32(
                          (IF n >= 3 THEN Crc32(SubSeq(stem, 2, n - 2)) ELSE Crc32(<<>>)).v,
                          Crc32(ext).v)]]

\* The calls C11 is about: a file-name hash function has been called on a
\* base name (no separator, every character encodable) whose stem is not
\* empty and shorter than 260 bytes and whose extension is shorter than 16.
C11_Applies ==
    /\ h_fn \in {"hash_file_name", "from_filename"}
    /\ \A i \in 1..Len(h_in) : ~IsSeparator(h_in[i])
    /\ IsSome(EncodeLower(h_in))
    /\ \E r \in {SplitExtension(Unwrap(EncodeLower(h_in)))} :
          r[1] # <<>> /\ Len(r[1]) < MAX_PATH /\ Len(r[2]) < 16

(***************************************************************************)
(* C11.  The TES4 file-name hash of a base name is the hash of the claim:  *)
(* the name is split at its last dot, and for a stem that is not empty and *)
(* shorter than 260 bytes and an extension shorter than 16 bytes the hash  *)
(* is the directory-style hash of the lowercased stem with the extension   *)
(* added, wrapping; "fxambblowingfog01.nif" and "dog.dds" hash to the two  *)
(* values of the claim.                                                    *)
(***************************************************************************)
C11_FileNameHash ==
    /\ C11_Applies =>
          \A r \in {ReferenceFileHash(Unwrap(EncodeLower(h_in)))} : h_out = HSome(r.h)
    /\ (h_fn \in {"hash_file_name", "from_filename"} /\ Len(h_in) = 21 /\ h_in \in ExampleNames) =>
          h_out = HSome([last |-> 49, last2 |-> 176, len |-> 17, first |-> 102,
                         crc |-> <<268, 24361>>])
    /\ (h_fn \in {"hash_file_name", "from_filename"} /\ Len(h_in) = 7 /\ h_in \in ExampleNames) =>
          h_out = HSome([last |-> 231, last2 |-> 239, len |-> 3, first |-> 100,
                         crc |-> <<36315, 43461>>])

(***************************************************************************)
(* C12.  A path that hash_directory_name accepts keeps its hash when a     *)
(* separator is replaced by the other kind, when a run of separators       *)
(* grows or shrinks or a trailing separator comes or goes, and when a      *)
(* letter changes case; its canonical form has that hash as well, and the  *)
(* path "meshes/DUNGEONS\\\mines\CAVEshaft/" has the hash of the tests.      *)
(***************************************************************************)
C12_DirectoryHashOfVariants ==
    /\ h_out.k = "again" => h_out.out = h_out.of
    /\ (h_fn = "hash_directory_name" /\ Len(h_in) = 34 /\ h_in \in ExampleNames) =>
          h_out = HSome([last |-> 116, last2 |-> 102, len |-> 31, first |-> 109,
                         crc |-> <<11341, 56084>>])

\* hash_directory_name has hashed a variant that has a letter in the other
\* case, and one that has a separator of the other kind.
C12_Witness ==
    /\ h_out.k = "again"
    /\ Len(h_out.v) = Len(h_in)
    /\ \E i \in 1..Len(h_in) :
          h_out.v[i] # h_in[i] /\ ~IsSeparator(h_in[i]) /\ h_out.out.k = "some"

\* The paths the claim has rejected: a leading separator, a "." or ".."
\* component, a character that Windows-1252 does not have, a NUL, an empty
\* path or normal form, or a normal form of 260 bytes or more.
MustBeRejected(path) ==
    \/ path = <<>>
    \/ IsSeparator(path[1])
    \/ \E a \in 1..Len(path) : \E b \in {a, a + 1} \cap (1..Len(path)) :
          IsComponent(path, a, b, {92, 47}) /\ \A k \in a..b : path[k] = 46
    \/ \E i \in 1..Len(path) : ~IsSome(EncodeLower(<<path[i]>>))
    \/ Contains(path, 0)
    \/ \E n \in {NormalizePath(path)} :
          IsSome(n) /\ (Unwrap(n) = <<>> \/ Len(Unwrap(n)) >= MAX_PATH)

(***************************************************************************)
(* C13.  hash_directory_name and hash_file_path return none for a path     *)
(* that begins with a separator, has a "." or ".." component, has a        *)
(* character that Windows-1252 cannot encode, has a NUL, is empty or has   *)
(* an empty normal form, or has a normal form of 260 bytes or more.        *)
(***************************************************************************)
C13_InvalidPathsHashToNone ==
    (h_fn \in {"hash_directory_name", "hash_file_path"} /\ MustBeRejected(h_in)) =>
        h_out = HNone

(***************************************************************************)
(* Integers on the wire.  A u32 field of an archive is held as an integer; *)
(* the archives of the model keep bit 31 of every field clear.  Offsets    *)
(* into a byte string count from 0, as in the source.                      *)
(***************************************************************************)

\* u32::to_le_bytes, u16::to_le_bytes
LE32(n) == <<n % 256, (n \div 256) % 256, (n \div 65536) % 256, n \div 16777216>>
LE16(n) == <<n % 256, n \div 256>>

\* u32::from_le_bytes of the 4 bytes at offset at.
FromLE32(bytes, at) ==
    bytes[at + 1] + 256 * bytes[at + 2] + 65536 * bytes[at + 3] + 16777216 * bytes[at + 4]
FromLE16(bytes, at) == bytes[at + 1] + 256 * bytes[at + 2]

\* bytes[from..to], the slice of the offsets from <= i < to.
Slice(bytes, from, to) == SubSeq(bytes, from + 1, to)

\* The bytes left of a source of `bytes` for a reader at offset pos.
Remaining(bytes, pos) == IF pos >= Len(bytes) THEN 0 ELSE Len(bytes) - pos

\* Hash::to_bytes, Hash::from_bytes
HashToBytes(h) ==
    <<h.last, h.last2, h.len, h.first,
      h.crc[2] % 256, h.crc[2] \div 256, h.crc[1] % 256, h.crc[1] \div 256>>
HashFromBytes(bytes, at) ==
    [last |-> bytes[at + 1], last2 |-> bytes[at + 2], len |-> bytes[at + 3],
     first |-> bytes[at + 4],
     crc |-> <<FromLE16(bytes, at + 6), FromLE16(bytes, at + 4)>>]

\* Ord for Hash: the order of to_u64, the little-endian reading of to_bytes.
RECURSIVE BytesLessFrom(_, _, _)
BytesLessFrom(a, b, i) ==
    IF i = 0 THEN FALSE
    ELSE IF a[i] # b[i] THEN a[i] < b[i]
    ELSE BytesLessFrom(a, b, i - 1)
HashLess(a, b) == BytesLessFrom(HashToBytes(a), HashToBytes(b), 8)

\* The records of S from the greatest hash to the least.
RECURSIVE SortByHashDescending(_)
SortByHashDescending(S) ==
    IF S = {} THEN <<>>
    ELSE LET m == CHOOSE x \in S : \A y \in S \ {x} : HashLess(y.hash, x.hash)
         IN <<m>> \o SortByHashDescending(S \ {m})

\* sort_unstable_by_key(|x| x.hash) on records of pairwise distinct hashes.
RECURSIVE SortByHash(_)
SortByHash(S) ==
    IF S = {} THEN <<>>
    ELSE LET m == CHOOSE x \in S : \A y \in S \ {x} : HashLess(x.hash, y.hash)
         IN <<m>> \o SortByHash(S \ {m})

\* The sum of f[i] over the sequence f.
RECURSIVE SumSeq(_)
SumSeq(f) == IF f = <<>> THEN 0 ELSE Head(f) + SumSeq(Tail(f))

(***************************************************************************)
(* The stream codecs (flate2, lz4_flex) as framings that can be told       *)
(* apart and that detect damage: a magic byte, the length of the data, the *)
(* data and a check byte.  A frame is longer than its data.                *)
(***************************************************************************)
CodecMagic(compression) == IF compression = "zlib" THEN 120 ELSE 4
CodecEncode(compression, data) ==
    <<CodecMagic(compression), Len(data)>> \o data \o <<SumSeq(data) % 256>>

\* read_vec(&mut decoder, len): the first len bytes of the decoded data, or
\* None when the frame is damaged or ends before them.  read_exact into an
\* empty buffer asks the decoder for nothing.
DecodeExact(compression, frame, len) ==
    IF len = 0 THEN Some(<<>>)
    ELSE IF /\ Len(frame) >= 2
            /\ frame[1] = CodecMagic(compression)
            /\ len <= frame[2]
            /\ Len(frame) >= 2 + len
    THEN Some(SubSeq(frame, 3, 2 + len))
    ELSE None

\* io::copy(&mut decoder, out): all of the decoded data, or None when the
\* frame is damaged or cut short.
DecodeAll(compression, frame) ==
    IF /\ Len(frame) >= 2
       /\ frame[1] = CodecMagic(compression)
       /\ Len(frame) >= 3 + frame[2]
       /\ frame[3 + frame[2]] = SumSeq(SubSeq(frame, 3, 2 + frame[2])) % 256
    THEN Some(SubSeq(frame, 3, 2 + frame[2]))
    ELSE None

(***************************************************************************)
(* The three TES4-family formats: the constants of the Bsa trait.          *)
(***************************************************************************)
Tes4 == [version |-> 103, can_embed |-> FALSE, compression |-> "zlib", folder_record |-> 16]
Tes5 == [version |-> 104, can_embed |-> TRUE, compression |-> "zlib", folder_record |-> 16]
Sse == [version |-> 105, can_embed |-> TRUE, compression |-> "lz4", folder_record |-> 24]
Formats == {Tes4, Tes5, Sse}

\* size_of::<RawHeader>(), size_of::<FileRecord>()
SizeOfRawHeader == 36
SizeOfFileRecord == 16

\* FileRecord::NEGATE_COMPRESSION = 1 << 30
NEGATE_COMPRESSION == 1073741824

\* ArchiveFlags
INCLUDE_DIRNAMES == 1
INCLUDE_FILENAMES == 2
COMPRESSED == 4
EMBED_FILENAMES == 256

\* flags.contains(flag), flags | flag and flags & !flag, for a one-bit flag
HasFlag(bits, flag) == (bits \div flag) % 2 = 1
InsertFlagLast(bits, flag) == flag
InsertFlag(bits, flag) == IF HasFlag(bits, flag) THEN bits ELSE bits + flag
RemoveFlag(bits, flag) == IF HasFlag(bits, flag) THEN bits - flag ELSE bits

(***************************************************************************)
(* BsaWriter (tes4/writer.rs).  The writer is the record of the struct's   *)
(* fields; dirs is the set of the map's values, each with its key `hash`,  *)
(* and so is a directory's files.  Names are stored with their final NUL.  *)
(***************************************************************************)
\* windows_1252::to_lowercase
ToLowercase1252(byte) ==
    IF byte \in 65..90 THEN byte + 32
    ELSE IF byte \in {138, 140, 158} THEN byte + 16
    ELSE IF byte \in 192..208 THEN byte + 32
    ELSE byte

\* path::normalize of a path given with `/` separators: every component has
\* to be a normal one (no root, no leading ".", no ".."), every character
\* has to encode to a byte other than NUL, and the result has to be shorter
\* than 255 bytes.  Components "." after the first are dropped by
\* Path::components.
Normalize(path) ==
    LET dot(a, b) == IsComponent(path, a, b, {47}) /\ \A k \in a..b : path[k] = 46
        skipped(i) == path[i] = 47 \/ dot(i, i)
        piece(i) ==
            IF skipped(i) THEN <<>>
            ELSE (IF /\ i > 1
                     /\ path[i - 1] = 47
                     /\ \E j \in 1..(i - 1) : ~skipped(j)
                  THEN <<92>> ELSE <<>>)
                 \o <<ToLowercase1252(Unwrap(Encode(path[i])))>>
        bytes == Flatten([i \in 1..Len(path) |-> piece(i)])
    IN IF path # <<>> /\ path[1] = 47 THEN None
       ELSE IF path # <<>> /\ dot(1, 1) THEN None
       ELSE IF \E a \in 1..Len(path) : a + 1 <= Len(path) /\ dot(a, a + 1) THEN None
       ELSE IF \E i \in 1..Len(path) :
                   ~skipped(i) /\ (~IsSome(Encode(path[i])) \/ Encode(path[i]) = Some(0))
       THEN None
       ELSE IF U8Max <= Len(bytes) THEN None
       ELSE Some(bytes)

\* BsaWriter::new
NewWriter ==
    [total_dir_name_len |-> 0,
     total_file_name_len |-> 0,
     file_count |-> 0,
     archive_flags |-> INCLUDE_DIRNAMES + INCLUDE_FILENAMES,
     file_flags |-> 0,
     dirs |-> {}]

\* The directory of w that is stored under the hash h, as a set.
DirsAt(w, h) == {d \in w.dirs : d.hash = h}

\* The element of a one-element set.  {e(x) : x \in {v}} computes v once
\* and e(x) from the value, however often e uses x.
Only(S) == CHOOSE r \in S : TRUE

\* The part of BsaWriter::add after path::split and the two hashes.
AddHashed(w, dirname, filename, dh, fh, data) ==
    LET extension == SplitExtensionFirst(filename)[2]
    IN IF dh.k # "some" \/ fh.k # "some" THEN [k |-> "panic", w |-> w]
       ELSE IF extension \notin {<<46, 100, 100, 115>>, <<46, 110, 105, 102>>}
       THEN [k |-> "panic", w |-> w]
       ELSE LET flag == IF extension = <<46, 100, 100, 115>> THEN 2 ELSE 1
                new == DirsAt(w, dh.h) = {}
                old == IF new
                       THEN [hash |-> dh.h, name |-> Append(dirname, 0), files |-> {}]
                       ELSE CHOOSE d \in DirsAt(w, dh.h) : TRUE
                replaced == \E f \in old.files : f.hash = fh.h
                file == [hash |-> fh.h, name |-> Append(filename, 0), data |-> data]
                dir == [old EXCEPT !.files =
                           {f \in old.files : f.hash # fh.h} \cup {file}]
            IN [k |-> "ok",
                w |-> [w EXCEPT
                    !.file_flags = InsertFlag(w.file_flags, flag),
                    !.total_dir_name_len =
                        IF new THEN @ + Len(dirname) + 1 ELSE @,
                    !.file_count = IF replaced THEN @ ELSE @ + 1,
                    !.total_file_name_len =
                        IF replaced THEN @ ELSE @ + Len(filename) + 1,
                    !.dirs = (w.dirs \ DirsAt(w, dh.h)) \cup {dir}]]

\* The part of BsaWriter::add after path::normalize.
AddNormalized(w, n, data) ==
    IF LastPos(n, 92) = 0 THEN [k |-> "panic", w |-> w]
    ELSE Only({Only({AddHashed(w, dirname, filename, dh, fh, data) :
                        dh \in {FromDirname(dirname)}, fh \in {FromFilename(filename)}}) :
                  dirname \in {SubSeq(n, 1, LastPos(n, 92) - 1)},
                  filename \in {SubSeq(n, LastPos(n, 92) + 1, Len(n))}})

\* BsaWriter::add: "ok" with the writer after the call, "err" with the
\* writer as it was, or "panic".
WriterAdd(w, path, data) ==
    Only({IF IsSome(n) THEN AddNormalized(w, Unwrap(n), data) ELSE [k |-> "err", w |-> w] :
             n \in {Normalize(path)}})

\* The directories of w in the order write_to_inner emits them, each with
\* its files in that order.
SortedDirs(w) ==
    LET ds == SortByHash(w.dirs)
    IN [k \in 1..Len(ds) |-> [ds[k] EXCEPT !.files = SortByHash(ds[k].files)]]

\* The (directory, file) pairs of the sorted directories ds, in order.
FilesInOrder(ds) ==
    Flatten([k \in 1..Len(ds) |->
                [j \in 1..Len(ds[k].files) |-> [dir |-> ds[k], file |-> ds[k].files[j]]]])

Zeros(n) == [i \in 1..n |-> 0]

\* w.write_all(patch) at offset at of the sink that holds bytes.
Overwrite(bytes, at, patch) ==
    [i \in 1..(IF at + Len(patch) > Len(bytes) THEN at + Len(patch) ELSE Len(bytes)) |->
        IF i > at /\ i <= at + Len(patch) THEN patch[i - at] ELSE bytes[i]]

\* RawHeader::from(header) as bytes
RawHeaderBytes(fmt, w, folder_count) ==
    <<66, 83, 65, 0>>
    \o LE32(fmt.version) \o LE32(SizeOfRawHeader) \o LE32(w.archive_flags)
    \o LE32(folder_count) \o LE32(w.file_count)
    \o LE32(w.total_dir_name_len) \o LE32(w.total_file_name_len)
    \o LE16(w.file_flags) \o <<0, 0>>

\* A::FolderRecord::new(hash, count, offset) as bytes
FolderRecordBytes(fmt, hash, count, offset) ==
    IF fmt.folder_record = 24
    THEN HashToBytes(hash) \o LE32(count) \o Zeros(4) \o LE32(offset) \o Zeros(4)
    ELSE HashToBytes(hash) \o LE32(count) \o LE32(offset)

\* FileRecord::new(hash, size, offset, negate_compression) as bytes; the
\* size has to have bit 30 clear, and `size &= NEGATE_COMPRESSION` is what
\* the source does for a negated record.
FileRecordBytes(hash, size, offset, negate_compression) ==
    HashToBytes(hash)
    \o LE32(IF negate_compression
            THEN (IF HasFlag(size, NEGATE_COMPRESSION) THEN NEGATE_COMPRESSION ELSE 0)
            ELSE size)
    \o LE32(offset)

\* What the payload loop of write_to_inner emits for one file, and the size
\* it notes for the file: the byte count of io::copy, which for LZ4 counts
\* the bytes that went INTO the encoder.
EmbeddedName(e) ==
    <<(Len(e.dir.name) + Len(e.file.name) - 1) % 256>>
    \o SubSeq(e.dir.name, 1, Len(e.dir.name) - 1) \o <<92>>
    \o SubSeq(e.file.name, 1, Len(e.file.name) - 1)
EmittedBlock(fmt, e, compressed, embed_names) ==
    (IF embed_names THEN EmbeddedName(e) ELSE <<>>)
    \o (IF compressed
        THEN LE32(Len(e.file.data)) \o CodecEncode(fmt.compression, e.file.data)
        ELSE e.file.data)
NotedSize(fmt, e, compressed) ==
    IF compressed /\ fmt.compression = "zlib"
    THEN Len(CodecEncode(fmt.compression, e.file.data))
    ELSE Len(e.file.data)

\* How far file_block_offset moves over one file in the back-patch loop.
OffsetStep(fmt, e, compressed, embed_names) ==
    NotedSize(fmt, e, compressed)
    + (IF embed_names THEN (Len(e.dir.name) - 1) + (Len(e.file.name) - 1) + 2 ELSE 0)
    + (IF compressed THEN 4 ELSE 0)

\* BsaWriter::write_to_inner: the bytes of the sink after the call.
WriteToInner(fmt, w) ==
    LET compressed == HasFlag(w.archive_flags, COMPRESSED)
        embed_names == fmt.can_embed /\ HasFlag(w.archive_flags, EMBED_FILENAMES)
        ds == SortedDirs(w)
        es == FilesInOrder(ds)
        records_at == SizeOfRawHeader + Len(ds) * fmt.folder_record
        dir_step(k) == Len(ds[k].name) + 1 + SizeOfFileRecord * Len(ds[k].files)
        folder_records ==
            Flatten([k \in 1..Len(ds) |->
                FolderRecordBytes(fmt, ds[k].hash, Len(ds[k].files),
                    records_at + w.total_file_name_len
                    + SumSeq([j \in 1..(k - 1) |-> dir_step(j)]))])
        file_record_blocks_len ==
            Len(ds) + w.total_dir_name_len + SizeOfFileRecord * w.file_count
        file_names_block == Flatten([i \in 1..Len(es) |-> es[i].file.name])
        payloads ==
            Flatten([i \in 1..Len(es) |-> EmittedBlock(fmt, es[i], compressed, embed_names)])
        file_block_offset ==
            records_at + Len(ds) + SizeOfFileRecord * w.file_count
            + w.total_dir_name_len + w.total_file_name_len
        \* the number of files in the directories before directory k
        before(k) == SumSeq([j \in 1..(k - 1) |-> Len(ds[j].files)])
        file_record(i) ==
            FileRecordBytes(es[i].file.hash, NotedSize(fmt, es[i], compressed),
                file_block_offset
                + SumSeq([j \in 1..(i - 1) |->
                            OffsetStep(fmt, es[j], compressed, embed_names)]),
                FALSE)
        patch ==
            Flatten([k \in 1..Len(ds) |->
                <<Len(ds[k].name) % 256>> \o ds[k].name
                \o Flatten([j \in 1..Len(ds[k].files) |-> file_record(before(k) + j)])])
    IN Overwrite(RawHeaderBytes(fmt, w, Len(ds)) \o folder_records
                 \o Zeros(file_record_blocks_len) \o file_names_block \o payloads,
                 records_at, patch)

(***************************************************************************)
(* BsaArchive (tes4/archive.rs): the reader of the bsa crate.  A String is *)
(* the sequence of its characters.  A call returns [k |-> "ok", ...] or    *)
(* [k |-> "err", e |-> error].                                             *)
(***************************************************************************)
Err(e) == [k |-> "err", e |-> e]

\* windows_1252::decode and windows_1252::to_string
Decode(byte) == IF byte < 128 \/ byte >= 160 THEN byte ELSE IF byte = 128 THEN 8364 ELSE byte
DecodeString(bytes) == [i \in 1..Len(bytes) |-> Decode(bytes[i])]

\* String::len: the length of the UTF-8 encoding.
StringLen(str) ==
    SumSeq([i \in 1..Len(str) |-> IF str[i] < 128 THEN 1 ELSE IF str[i] < 2048 THEN 2 ELSE 3])

\* Header::<A>::try_from(raw_header) on the first 36 bytes of the source.
HeaderTryFrom(fmt, bytes) ==
    IF \/ Slice(bytes, 0, 4) # <<66, 83, 65, 0>>
       \/ FromLE32(bytes, 4) # fmt.version
       \/ FromLE32(bytes, 8) # 36
       \/ FromLE32(bytes, 12) >= 1024
       \/ FromLE16(bytes, 32) >= 512
    THEN Err("BadHeader")
    ELSE [k |-> "ok",
          archive_flags |-> FromLE32(bytes, 12),
          folder_count |-> FromLE32(bytes, 16),
          file_count |-> FromLE32(bytes, 20),
          total_folder_name_length |-> FromLE32(bytes, 24),
          total_file_name_length |-> FromLE32(bytes, 28),
          file_flags |-> FromLE16(bytes, 32)]

\* Header::embed_filenames
EmbedFilenames(fmt, header) == fmt.can_embed /\ HasFlag(header.archive_flags, EMBED_FILENAMES)

\* FolderRecord::count and ::offset of the record at offset at.
FolderCount(bytes, at) == FromLE32(bytes, at + 8)
FolderOffset(fmt, bytes, at) ==
    IF fmt.folder_record = 24 THEN FromLE32(bytes, at + 16) ELSE FromLE32(bytes, at + 12)

\* FileRecord::size, ::negate_compression and ::offset of the record at at.
FileRecordSize(bytes, at) ==
    IF HasFlag(FromLE32(bytes, at + 8), NEGATE_COMPRESSION)
    THEN FromLE32(bytes, at + 8) - NEGATE_COMPRESSION
    ELSE FromLE32(bytes, at + 8)
NegateCompressionNever(bytes, at) == FALSE
NegateCompression(bytes, at) == HasFlag(FromLE32(bytes, at + 8), NEGATE_COMPRESSION)
FileRecordOffset(bytes, at) == FromLE32(bytes, at + 12)

\* read_bstring_inner at offset pos: the bytes of the string, or an error.
ReadBstringInner(bytes, pos) ==
    IF Remaining(bytes, pos) < 1 \/ Remaining(bytes, pos + 1) < bytes[pos + 1]
    THEN Err("Io")
    ELSE [k |-> "ok", name |-> Slice(bytes, pos + 1, pos + 1 + bytes[pos + 1])]

\* read_bzstring: the string without its final NUL.
ReadBzstring(bytes, pos) ==
    LET r == ReadBstringInner(bytes, pos)
    IN IF r.k # "ok" THEN r
       ELSE IF ~Contains(r.name, 0) THEN Err("MissingNul")
       ELSE IF FirstPos(r.name, 0) # Len(r.name) THEN Err("EmbeddedNul")
       ELSE [k |-> "ok", name |-> DecodeString(SubSeq(r.name, 1, Len(r.name) - 1)),
             consumed |-> 1 + Len(r.name)]

\* read_bstring
ReadBstring(bytes, pos) ==
    LET r == ReadBstringInner(bytes, pos)
    IN IF r.k # "ok" THEN r
       ELSE IF Contains(r.name, 0) THEN Err("EmbeddedNul")
       ELSE [k |-> "ok", name |-> DecodeString(r.name), consumed |-> 1 + Len(r.name)]

\* The File that BsaArchive::new builds from the file record at offset at.
FileOfRecord(header, bytes, at) ==
    [compressed |-> IF NegateCompression(bytes, at)
                    THEN ~HasFlag(header.archive_flags, COMPRESSED)
                    ELSE HasFlag(header.archive_flags, COMPRESSED),
     hash |-> HashFromBytes(bytes, at),
     name |-> None,
     offset |-> FileRecordOffset(bytes, at),
     raw_size |-> FileRecordSize(bytes, at)]

\* The loop of BsaArchive::new over the folder records, from record k on:
\* pos is the offset of the reader, read_position the position the code
\* tracks, ds the directories built so far.
RECURSIVE FolderLoop(_, _, _, _, _, _, _)
FolderLoop(fmt, header, bytes, k, pos, read_position, ds) ==
    IF k > header.folder_count
    THEN [k |-> "ok", dirs |-> ds, pos |-> pos, read_position |-> read_position]
    ELSE LET at == SizeOfRawHeader + (k - 1) * fmt.folder_record
             name == IF HasFlag(header.archive_flags, INCLUDE_DIRNAMES)
                     THEN ReadBzstring(bytes, pos)
                     ELSE [k |-> "ok", name |-> <<>>, consumed |-> 0]
             count == FolderCount(bytes, at)
             records == pos + name.consumed
             dir == [name |-> IF HasFlag(header.archive_flags, INCLUDE_DIRNAMES)
                              THEN Some(name.name) ELSE None,
                     hash |-> HashFromBytes(bytes, at),
                     files |-> [j \in 1..count |->
                        FileOfRecord(header, bytes, records + (j - 1) * SizeOfFileRecord)]]
         IN IF FolderOffset(fmt, bytes, at) < header.total_file_name_length
            THEN Err("BadOffset")
            ELSE IF FolderOffset(fmt, bytes, at) - header.total_file_name_length
                        # read_position
            THEN Err("BadOffset")
            ELSE IF name.k # "ok" THEN name
            ELSE IF Remaining(bytes, records) < count * SizeOfFileRecord THEN Err("Io")
            ELSE FolderLoop(fmt, header, bytes, k + 1,
                    records + count * SizeOfFileRecord,
                    read_position
                    + (IF HasFlag(header.archive_flags, INCLUDE_DIRNAMES)
                       THEN StringLen(name.name) + 2 ELSE 0)
                    + count * SizeOfFileRecord,
                    Append(ds, dir))

\* compute_file_name_block_offset
ComputeFileNameBlockOffset(fmt, header) ==
    SizeOfRawHeader
    + header.folder_count * fmt.folder_record
    + header.file_count * SizeOfFileRecord
    + (IF HasFlag(header.archive_flags, INCLUDE_DIRNAMES)
       THEN header.total_folder_name_length + header.folder_count ELSE 0)

\* The offset in the names block nb just past its i-th NUL, 0 for i = 0.
PastNul(nb, i) ==
    IF i = 0 THEN 0
    ELSE CHOOSE p \in 1..Len(nb) :
            nb[p] = 0 /\ Cardinality({q \in 1..p : nb[q] = 0}) = i

\* The names loop of BsaArchive::new: the i-th file of the archive, counted
\* over the directories in order, gets the i-th NUL-terminated name of nb.
WithNames(ds, nb) ==
    [k \in 1..Len(ds) |->
        [ds[k] EXCEPT !.files =
            [j \in 1..Len(ds[k].files) |->
                LET i == SumSeq([x \in 1..(k - 1) |-> Len(ds[x].files)]) + j
                IN [ds[k].files[j] EXCEPT !.name =
                        Some(DecodeString(Slice(nb, PastNul(nb, i - 1), PastNul(nb, i) - 1)))]]]]

\* BsaArchive::new on a source that holds bytes.
BsaArchiveNew(fmt, bytes) ==
    IF Len(bytes) < SizeOfRawHeader THEN Err("Io")
    ELSE LET header == HeaderTryFrom(fmt, bytes)
         IN IF header.k # "ok" THEN header
            ELSE IF Remaining(bytes, SizeOfRawHeader) < header.folder_count * fmt.folder_record
            THEN Err("Io")
            ELSE LET at == SizeOfRawHeader + header.folder_count * fmt.folder_record
                     folders == FolderLoop(fmt, header, bytes, 1, at, at, <<>>)
                     files == SumSeq([k \in 1..Len(folders.dirs) |-> Len(folders.dirs[k].files)])
                     nb == Slice(bytes, folders.pos,
                                 folders.pos + header.total_file_name_length)
                 IN IF folders.k # "ok" THEN folders
                    ELSE IF ~HasFlag(header.archive_flags, INCLUDE_FILENAMES)
                    THEN [k |-> "ok", header |-> header, dirs |-> folders.dirs]
                    ELSE IF ComputeFileNameBlockOffset(fmt, header) # folders.read_position
                    THEN Err("BadOffset")
                    ELSE IF Remaining(bytes, folders.pos) < header.total_file_name_length
                    THEN Err("Io")
                    ELSE IF Cardinality({q \in 1..Len(nb) : nb[q] = 0}) < files
                    THEN Err("MissingNul")
                    ELSE [k |-> "ok", header |-> header,
                          dirs |-> WithNames(folders.dirs, nb)]

\* What an opened entry reads from: the `limit` bytes of the source from
\* offset start on (io::Take), raw or through a decoder.
Stream(codec, start, limit, uncompressed_len) ==
    [k |-> "ok", codec |-> codec, start |-> start, limit |-> limit,
     uncompressed_len |-> uncompressed_len]

\* The bytes a stream can deliver from a source that holds bytes.
Taken(bytes, st) == Slice(bytes, st.start, Min(st.start + st.limit, Len(bytes)))

\* BsaArchive::open_raw
OpenRaw(file) == Stream("raw", file.offset, file.raw_size, 0)

\* BsaArchive::open
Open(fmt, header, bytes, file) ==
    IF file.compressed
    THEN LET name == IF EmbedFilenames(fmt, header)
                     THEN ReadBstring(bytes, file.offset)
                     ELSE [k |-> "ok", consumed |-> 0]
             at == file.offset + name.consumed
         IN IF name.k # "ok" THEN name
            ELSE IF Remaining(bytes, at) < 4 THEN Err("Io")
            ELSE Stream(fmt.compression, at + 4, file.raw_size, FromLE32(bytes, at))
    ELSE OpenRaw(file)

\* BsaArchive::read_file_block; `len -= ...` on the u64 below zero is an
\* "underflow": a panic or a wrapped length, as the build has it.
ReadFileBlock(fmt, header, bytes, file) ==
    LET name == IF EmbedFilenames(fmt, header)
                THEN ReadBstring(bytes, file.offset)
                ELSE [k |-> "ok", consumed |-> 0]
        len1 == file.raw_size
                - (IF EmbedFilenames(fmt, header) THEN StringLen(name.name) + 1 ELSE 0)
        at == file.offset + name.consumed
    IN IF name.k # "ok" THEN name
       ELSE IF len1 < 0 THEN [k |-> "underflow"]
       ELSE IF ~file.compressed THEN Stream("raw", at, len1, 0)
       ELSE IF Remaining(bytes, at) < 4 THEN Err("Io")
       ELSE IF len1 < 4 THEN [k |-> "underflow"]
       ELSE Stream(fmt.compression, at + 4, len1 - 4, FromLE32(bytes, at))

\* EntryData::into_owned on a stream: the content of the entry, or an error.
IntoOwned(bytes, st) ==
    IF st.codec = "raw"
    THEN IF Len(Taken(bytes, st)) < st.limit THEN Err("Io")
         ELSE [k |-> "ok", data |-> Taken(bytes, st)]
    ELSE LET d == DecodeExact(st.codec, Taken(bytes, st), st.uncompressed_len)
         IN IF IsSome(d) THEN [k |-> "ok", data |-> Unwrap(d)] ELSE Err("Io")

(***************************************************************************)
(* The writer specification: a BsaWriter is built, written to a sink, and  *)
(* the sink's bytes are opened with BsaArchive of the same format.         *)
(***************************************************************************)
MaxFiles == 3

\* a/x.dds, a/y.nif, b/x.dds, A/X.DDS, and paths add does not store:
\* ../x.dds, x.dds (no directory), a/x.txt (an extension add has no flag for).
AddPaths ==
    {<<97, 47, 120, 46, 100, 100, 115>>, <<97, 47, 121, 46, 110, 105, 102>>,
     <<98, 47, 120, 46, 100, 100, 115>>, <<65, 47, 88, 46, 68, 68, 83>>,
     <<46, 46, 47, 120, 46, 100, 100, 115>>, <<120, 46, 100, 100, 115>>,
     <<97, 47, 120, 46, 116, 120, 116>>}
AddData == {<<>>, <<1>>, <<1, 2>>}

InitTes4 ==
    /\ IdleNotTes4
    /\ w_fmt \in Formats
    /\ w_writer = NewWriter
    /\ w_pc = "building"
    /\ w_sink = <<>>
    /\ r_archive = [k |-> "none"]
    /\ r_entry = [k |-> "none"]

\* ArchiveWrite::set_compressed
SetCompressed(compressed) ==
    /\ w_pc = "building"
    /\ w_writer' = [w_writer EXCEPT !.archive_flags =
            IF compressed THEN InsertFlag(@, COMPRESSED) ELSE RemoveFlag(@, COMPRESSED)]
    /\ UNCHANGED <<w_fmt, w_pc, w_sink, r_archive, r_entry, othersTes4>>

\* BsaWriter::set_embed_filenames
SetEmbedFilenames(embed) ==
    /\ w_pc = "building"
    /\ w_writer' = [w_writer EXCEPT !.archive_flags =
            IF embed THEN InsertFlag(@, EMBED_FILENAMES) ELSE RemoveFlag(@, EMBED_FILENAMES)]
    /\ UNCHANGED <<w_fmt, w_pc, w_sink, r_archive, r_entry, othersTes4>>

\* ArchiveWrite::add
Add(path, data) ==
    /\ w_pc = "building"
    /\ w_writer.file_count < MaxFiles
    /\ w_writer' = WriterAdd(w_writer, path, data).w
    /\ w_pc' = IF WriterAdd(w_writer, path, data).k = "panic" THEN "panicked" ELSE w_pc
    /\ UNCHANGED <<w_fmt, w_sink, r_archive, r_entry, othersTes4>>

\* ArchiveWrite::write_to
WriteTo ==
    /\ w_pc = "building"
    /\ w_sink' = WriteToInner(w_fmt, w_writer)
    /\ w_pc' = "written"
    /\ UNCHANGED <<w_fmt, w_writer, r_archive, r_entry, othersTes4>>

\* BsaArchive::<A, _>::new(sink)
ArchiveNew ==
    /\ w_pc = "written"
    /\ r_archive.k = "none"
    /\ r_archive' = BsaArchiveNew(w_fmt, w_sink)
    /\ UNCHANGED <<w_fmt, w_writer, w_pc, w_sink, r_entry, othersTes4>>

\* archive.open(index)?.into_owned()
OpenEntry(folder, file) ==
    /\ r_archive.k = "ok"
    /\ folder < Len(r_archive.dirs)
    /\ file < Len(r_archive.dirs[folder + 1].files)
    /\ \E st \in {Open(w_fmt, r_archive.header, w_sink,
                       r_archive.dirs[folder + 1].files[file + 1])} :
          r_entry' = [k |-> "opened", via |-> "open", folder |-> folder, file |-> file,
                      st |-> st,
                      res |-> IF st.k = "ok" THEN IntoOwned(w_sink, st) ELSE st]
    /\ UNCHANGED <<w_fmt, w_writer, w_pc, w_sink, r_archive, othersTes4>>

NextTes4 ==
    \/ \E b \in BOOLEAN : SetCompressed(b)
    \/ \E b \in BOOLEAN : SetEmbedFilenames(b)
    \/ \E path \in AddPaths, data \in AddData : Add(path, data)
    \/ WriteTo
    \/ ArchiveNew
    \/ \E folder \in 0..(MaxFiles - 1), file \in 0..(MaxFiles - 1) : OpenEntry(folder, file)

SpecTes4 == InitTes4 /\ [][NextTes4]_vars

(***************************************************************************)
(* C2.  What BsaWriter writes, for every format and with or without        *)
(* compression and embedded names, is accepted by BsaArchive::new of the   *)
(* same format, and the archive gives back the directory names, the file   *)
(* names and the content of every stored entry.                            *)
(***************************************************************************)
NamesRoundTrip ==
    LET ds == SortedDirs(w_writer)
    IN /\ r_archive.k = "ok"
       /\ Len(r_archive.dirs) = Len(ds)
       /\ \A k \in 1..Len(ds) :
            /\ r_archive.dirs[k].name = Some(SubSeq(ds[k].name, 1, Len(ds[k].name) - 1))
            /\ Len(r_archive.dirs[k].files) = Len(ds[k].files)
            /\ \A j \in 1..Len(ds[k].files) :
                 r_archive.dirs[k].files[j].name
                    = Some(SubSeq(ds[k].files[j].name, 1, Len(ds[k].files[j].name) - 1))

ContentRoundTrip ==
    /\ r_entry.res.k = "ok"
    /\ r_entry.res.data = SortedDirs(w_writer)[r_entry.folder + 1].files[r_entry.file + 1].data

C2_WriterReaderRoundTrip ==
    /\ r_archive.k \notin {"none", "off"} => NamesRoundTrip
    /\ r_entry.k = "opened" => ContentRoundTrip

(***************************************************************************)
(* TES3 (tes3/mod.rs).  A NameHash is [low |-> l, high |-> h], the two     *)
(* u32 halves of the u64, each as its 4 little-endian bytes.               *)
(***************************************************************************)
SizeOfTes3Header == 12
SizeOfRecord == 8
SizeOfNameOffset == 4
SizeOfNameHash == 8
Tes3Magic == 256

\* str::as_bytes: the UTF-8 encoding of a string of characters below U+10000.
Utf8(str) ==
    Flatten([i \in 1..Len(str) |->
        IF str[i] < 128 THEN <<str[i]>>
        ELSE IF str[i] < 2048 THEN <<192 + (str[i] \div 64), 128 + (str[i] % 64)>>
        ELSE <<224 + (str[i] \div 4096), 128 + ((str[i] \div 64) % 64), 128 + (str[i] % 64)>>])

\* u8 ^ u8
Xor8(a, b) ==
    SumSeq([k \in 1..8 |-> (2 ^ (k - 1)) * (((a \div 2 ^ (k - 1)) + (b \div 2 ^ (k - 1))) % 2)])
RECURSIVE XorAll(_)
XorAll(bs) == IF bs = <<>> THEN 0 ELSE Xor8(Head(bs), XorAll(Tail(bs)))

\* u32::rotate_right(n) on the 4 little-endian bytes of the value.
RotateRight32(v, n) ==
    Only({<<>> \o [m \in 1..4 |->
            SumSeq([k \in 1..8 |->
                (2 ^ (k - 1))
                * ((w[(((8 * (m - 1) + (k - 1) + r) % 32) \div 8) + 1]
                        \div 2 ^ ((8 * (m - 1) + (k - 1) + r) % 8)) % 2)])] :
           w \in {v}, r \in {n}})

u8_to_ascii_lowercase(byte) == IF byte \in 65..90 THEN byte + 32 ELSE byte

\* norm_byte of compute_hash
NormByte(byte) ==
    IF byte = 47 THEN Some(92)
    ELSE IF byte = 0 THEN None
    ELSE IF byte < 128 THEN Some(u8_to_ascii_lowercase(byte))
    ELSE None

\* The loop of compute_hash over the second half: from its i-th byte on.
RECURSIVE HighFrom(_, _, _)
HighFrom(second, i, high) ==
    IF i > Len(second) THEN high
    ELSE HighFrom(second, i + 1,
            RotateRight32(
                [high EXCEPT ![((i - 1) % 4) + 1] = Xor8(@, Unwrap(NormByte(second[i])))],
                IF (i - 1) % 4 = 0 THEN Unwrap(NormByte(second[i])) % 32 ELSE 0))

\* The hash of bytes that all normalise.
HashOfBytes(first, second) ==
    [low |-> [m \in 1..4 |->
                XorAll([j \in 1..((Len(first) - m + 4) \div 4) |->
                            Unwrap(NormByte(first[4 * (j - 1) + m]))])],
     high |-> HighFrom(second, 1, <<0, 0, 0, 0>>)]

\* compute_hash
ComputeHash(name) ==
    Only({IF \E i \in 1..Len(bytes) : ~IsSome(NormByte(bytes[i])) THEN None
          ELSE Some(Only({HashOfBytes(first, second) :
                            first \in {SubSeq(bytes, 1, Len(bytes) \div 2)},
                            second \in {SubSeq(bytes, Len(bytes) \div 2 + 1, Len(bytes))}})) :
             bytes \in {Utf8(name)}})

\* Ord for NameHash: the order of compare_key, the u64 with low as its
\* upper and high as its lower half.
NameHashLess(a, b) ==
    BytesLessFrom(a.high \o a.low, b.high \o b.low, 8)

\* Ord for Vec<u8>: the lexicographic order.
RECURSIVE VecLess(_, _)
VecLess(a, b) ==
    IF b = <<>> THEN FALSE
    ELSE IF a = <<>> THEN TRUE
    ELSE IF Head(a) # Head(b) THEN Head(a) < Head(b)
    ELSE VecLess(Tail(a), Tail(b))

(***************************************************************************)
(* Tes3Writer (tes3/writer.rs).  entries is the set of the map's values,   *)
(* each with its key `name`, the stored name with its final NUL.           *)
(***************************************************************************)
NewTes3Writer == [file_names_len |-> 0, entries |-> {}]

\* The name add_inner stores for a path whose bytes are `bytes`.
StoredName(bytes) ==
    [i \in 1..Len(bytes) |->
        IF bytes[i] = 47 THEN 92 ELSE u8_to_ascii_lowercase(bytes[i])] \o <<0>>

\* The part of Tes3Writer::add_inner after compute_hash, for names whose
\* lengths stay far below the u32 limit of file_names_len (AddInnerRun is
\* add_inner at that limit).
AddInnerHashed(w, name, hash, data) ==
    [k |-> "ok",
     w |-> [file_names_len |->
                IF \E e \in w.entries : e.name = name THEN w.file_names_len
                ELSE w.file_names_len + Len(name),
            entries |-> {e \in w.entries : e.name # name}
                        \cup {[name |-> name, hash |-> hash, data |-> data]}]]

\* Tes3Writer::add_inner
AddInner(w, path, data) ==
    Only({IF ~IsSome(hash) THEN [k |-> "err", w |-> w]
          ELSE Only({AddInnerHashed(w, name, Unwrap(hash), data) :
                        name \in {StoredName(Utf8(path))}}) :
             hash \in {ComputeHash(path)}})

\* sort_unstable_by(|(a, _), (b, _)| a.cmp(b)) and
\* sort_unstable_by_key(|(_, entry)| entry.hash) on a set of entries.
RECURSIVE SortByName(_)
SortByName(S) ==
    IF S = {} THEN <<>>
    ELSE LET m == CHOOSE x \in S : \A y \in S \ {x} : VecLess(x.name, y.name)
         IN <<m>> \o SortByName(S \ {m})
RECURSIVE SortByNameHash(_)
SortByNameHash(S) ==
    IF S = {} THEN <<>>
    ELSE LET m == CHOOSE x \in S : \A y \in S \ {x} : NameHashLess(x.hash, y.hash)
         IN <<m>> \o SortByNameHash(S \ {m})

\* compute_hash_table_offset
ComputeHashTableOffset(w) ==
    w.file_names_len + SizeOfRecord * Cardinality(w.entries)
    + SizeOfNameOffset * Cardinality(w.entries)

\* Header::new as bytes
Tes3HeaderBytes(hash_table_offset, file_count) ==
    LE32(Tes3Magic) \o LE32(hash_table_offset) \o LE32(file_count)

\* The bytes write_to emits, from the entries in name order and in hash
\* order: the i-th record takes its size from the i-th entry in hash order
\* and its offset from the i-th entry in name order.
Tes3Emit(w, by_name, by_hash) ==
    Tes3HeaderBytes(ComputeHashTableOffset(w), Len(by_hash))
    \o Flatten([i \in 1..Len(by_hash) |->
            LE32(Len(by_hash[i].data))
            \o LE32(SumSeq([j \in 1..(i - 1) |-> Len(by_name[j].data)]))])
    \o Flatten([i \in 1..Len(by_hash) |->
            LE32(SumSeq([j \in 1..(i - 1) |-> Len(by_hash[j].name)]))])
    \o Flatten([i \in 1..Len(by_hash) |-> by_hash[i].name])
    \o Flatten([i \in 1..Len(by_hash) |-> by_hash[i].hash.low \o by_hash[i].hash.high])
    \o Flatten([i \in 1..Len(by_name) |-> by_name[i].data])

\* Tes3Writer::write_to: the bytes of the sink after the call.
Tes3WriteToBytes(w) ==
    Only({Tes3Emit(w, by_name, by_hash) :
             by_name \in {SortByName(w.entries)}, by_hash \in {SortByNameHash(w.entries)}})

(***************************************************************************)
(* The TES3 reader (tes3/bsa.rs, tes3/archive.rs).                         *)
(***************************************************************************)
\* The tables Bsa::new reads after the header and the records.
BsaTables(bytes, hash_table_offset, n) ==
    IF Remaining(bytes, SizeOfTes3Header) < (SizeOfRecord + SizeOfNameOffset) * n
    THEN Err("Io")
    ELSE IF hash_table_offset < (SizeOfRecord + SizeOfNameOffset) * n THEN Err("BadOffset")
    ELSE IF Remaining(bytes, SizeOfTes3Header + (SizeOfRecord + SizeOfNameOffset) * n)
                < hash_table_offset - (SizeOfRecord + SizeOfNameOffset) * n + SizeOfNameHash * n
    THEN Err("Io")
    ELSE [k |-> "ok",
          hash_table_offset |-> hash_table_offset,
          file_count |-> n,
          records |-> [i \in 1..n |->
              [size |-> FromLE32(bytes, SizeOfTes3Header + SizeOfRecord * (i - 1)),
               offset |-> FromLE32(bytes, SizeOfTes3Header + SizeOfRecord * (i - 1) + 4)]],
          name_offsets |-> [i \in 1..n |->
              FromLE32(bytes, SizeOfTes3Header + SizeOfRecord * n + SizeOfNameOffset * (i - 1))],
          names |-> Slice(bytes, SizeOfTes3Header + (SizeOfRecord + SizeOfNameOffset) * n,
                          SizeOfTes3Header + hash_table_offset),
          hashes |-> [i \in 1..n |->
              [low |-> Slice(bytes, SizeOfTes3Header + hash_table_offset
                                    + SizeOfNameHash * (i - 1),
                             SizeOfTes3Header + hash_table_offset
                                    + SizeOfNameHash * (i - 1) + 4),
               high |-> Slice(bytes, SizeOfTes3Header + hash_table_offset
                                     + SizeOfNameHash * (i - 1) + 4,
                              SizeOfTes3Header + hash_table_offset
                                     + SizeOfNameHash * (i - 1) + 8)]]]

\* Bsa::new on a source that holds bytes.
BsaNew(bytes) ==
    IF Len(bytes) < SizeOfTes3Header THEN Err("Io")
    ELSE IF FromLE32(bytes, 0) # Tes3Magic THEN Err("InvalidMagic")
    ELSE BsaTables(bytes, FromLE32(bytes, 4), FromLE32(bytes, 8))

\* Bsa::data_offset, Bsa::absolute_offset, Bsa::file_len; index from 0.
DataOffset(bsa) == bsa.hash_table_offset + bsa.file_count * SizeOfNameHash
AbsoluteOffset(bsa, index) == DataOffset(bsa) + bsa.records[index + 1].offset
FileLen(bsa, index) == bsa.records[index + 1].size

\* NameTable::get: the name at offset off of the names block, up to its NUL.
NameTableGet(names, off) ==
    IF Len(names) <= off THEN Err("BadOffset")
    ELSE IF ~Contains(Slice(names, off, Len(names)), 0) THEN Err("MissingNul")
    ELSE IF ~IsAscii(Slice(names, off, off + FirstPos(Slice(names, off, Len(names)), 0) - 1))
    THEN Err("BadEncoding")
    ELSE [k |-> "ok",
          name |-> Slice(names, off, off + FirstPos(Slice(names, off, Len(names)), 0) - 1)]

\* Bsa::name and entry_for
BsaName(bsa, index) == NameTableGet(bsa.names, bsa.name_offsets[index + 1])
EntryFor(bsa, index) ==
    Only({IF n.k # "ok" THEN n
          ELSE [k |-> "ok", index |-> index, size |-> FileLen(bsa, index), name |-> n.name] :
             n \in {BsaName(bsa, index)}})

\* <[NameHash]>::binary_search on the range lo..hi (from 1): the position
\* of hash, 0 when the search does not find it.
RECURSIVE BinarySearch(_, _, _, _)
BinarySearch(hashes, hash, lo, hi) ==
    IF lo > hi THEN 0
    ELSE IF hashes[(lo + hi) \div 2] = hash THEN (lo + hi) \div 2
    ELSE IF NameHashLess(hashes[(lo + hi) \div 2], hash)
    THEN BinarySearch(hashes, hash, (lo + hi) \div 2 + 1, hi)
    ELSE BinarySearch(hashes, hash, lo, (lo + hi) \div 2 - 1)

\* HashTable::find_by_name: Some(index) or None.
FindByName(bsa, name) ==
    Only({IF ~IsSome(hash) THEN None
          ELSE Only({IF at = 0 THEN None ELSE Some(at - 1) :
                        at \in {BinarySearch(bsa.hashes, Unwrap(hash), 1, Len(bsa.hashes))}}) :
             hash \in {ComputeHash(name)}})

\* Tes3Archive::open_by_index
OpenByIndex(bsa, index) == Stream("raw", AbsoluteOffset(bsa, index), FileLen(bsa, index), 0)

\* Tes3Archive::open_by_name
OpenByName(bsa, name) ==
    Only({IF ~IsSome(found) THEN Err("FileNotFound")
          ELSE IF EntryFor(bsa, Unwrap(found)).k # "ok" THEN EntryFor(bsa, Unwrap(found))
          ELSE OpenByIndex(bsa, Unwrap(found)) :
             found \in {FindByName(bsa, name)}})

(***************************************************************************)
(* The TES3 specification: a Tes3Writer is built, written to a sink, and   *)
(* the sink's bytes are opened with Tes3Archive.                           *)
(***************************************************************************)
\* a, B, ab, a/b, A, and a path compute_hash rejects: é.
Tes3Paths == {<<97>>, <<66>>, <<97, 98>>, <<97, 47, 98>>, <<65>>, <<233>>}

InitTes3 ==
    /\ IdleNotTes3
    /\ t_writer = NewTes3Writer
    /\ t_pc = "building"
    /\ t_sink = <<>>
    /\ t_bsa = [k |-> "none"]
    /\ t_names = [k |-> "none"]
    /\ t_entry = [k |-> "none"]

\* <Tes3Writer as ArchiveWrite>::add
Tes3Add(path, data) ==
    /\ t_pc = "building"
    /\ Cardinality(t_writer.entries) < MaxFiles
    /\ t_writer' = AddInner(t_writer, path, data).w
    /\ UNCHANGED <<t_pc, t_sink, t_bsa, t_names, t_entry, othersTes3>>

\* <Tes3Writer as ArchiveWrite>::write_to
Tes3WriteTo ==
    /\ t_pc = "building"
    /\ t_sink' = Tes3WriteToBytes(t_writer)
    /\ t_pc' = "written"
    /\ UNCHANGED <<t_writer, t_bsa, t_names, t_entry, othersTes3>>

\* Tes3Archive::new(sink)
Tes3ArchiveNew ==
    /\ t_pc = "written"
    /\ t_bsa.k = "none"
    /\ t_bsa' = BsaNew(t_sink)
    /\ UNCHANGED <<t_writer, t_pc, t_sink, t_names, t_entry, othersTes3>>

\* archive.entries().collect(): what the iterator yields, index by index.
Tes3Entries ==
    /\ t_bsa.k = "ok"
    /\ t_names' = [k |-> "listed",
                   items |-> [i \in 1..Len(t_bsa.records) |-> EntryFor(t_bsa, i - 1)]]
    /\ UNCHANGED <<t_writer, t_pc, t_sink, t_bsa, t_entry, othersTes3>>

\* archive.open_by_name(path): the stream's length, and into_owned() on it.
Tes3OpenByName(path) ==
    /\ t_bsa.k = "ok"
    /\ \E st \in {OpenByName(t_bsa, path)} :
         t_entry' = [k |-> "opened", path |-> path,
                     len |-> IF st.k = "ok" THEN Some(st.limit) ELSE None,
                     res |-> IF st.k = "ok" THEN IntoOwned(t_sink, st) ELSE st]
    /\ UNCHANGED <<t_writer, t_pc, t_sink, t_bsa, t_names, othersTes3>>

NextTes3 ==
    \/ \E path \in Tes3Paths, data \in AddData : Tes3Add(path, data)
    \/ Tes3WriteTo
    \/ Tes3ArchiveNew
    \/ Tes3Entries
    \/ \E path \in Tes3Paths : Tes3OpenByName(path)

SpecTes3 == InitTes3 /\ [][NextTes3]_vars

(***************************************************************************)
(* C3.  What Tes3Writer writes is read back by the TES3 reader: the reader *)
(* accepts it, enumerates exactly the names that were added, and           *)
(* open_by_name of an added path gives a stream of the length and with the *)
(* bytes of the content added under it.                                    *)
(***************************************************************************)
Tes3NamesRoundTrip ==
    /\ \A i \in 1..Len(t_names.items) : t_names.items[i].k = "ok"
    /\ Len(t_names.items) = Cardinality(t_writer.entries)
    /\ {t_names.items[i].name \o <<0>> : i \in 1..Len(t_names.items)}
         = {e.name : e \in t_writer.entries}

Tes3ContentRoundTrip ==
    \A e \in t_writer.entries :
        e.name = StoredName(Utf8(t_entry.path)) =>
            /\ t_entry.len = Some(Len(e.data))
            /\ t_entry.res.k = "ok"
            /\ t_entry.res.data = e.data

C3_Tes3RoundTrip ==
    /\ t_bsa.k \notin {"none", "off"} => t_bsa.k = "ok"
    /\ t_names.k = "listed" => Tes3NamesRoundTrip
    /\ t_entry.k = "opened" => Tes3ContentRoundTrip

(***************************************************************************)
(* RawArchive (crates/tes4-bsa/src/raw_archive.rs): the reader of the      *)
(* tes4-bsa crate.  The version is the number of the header, a             *)
(* compression is None or Some of "zlib" or "lz4".                         *)
(***************************************************************************)
\* Header::from_bytes on the first 36 bytes of the source, None as an error.
RawHeaderFromBytes(bytes) ==
    IF \/ Slice(bytes, 0, 4) # <<66, 83, 65, 0>>
       \/ FromLE32(bytes, 4) \notin {103, 104, 105}
       \/ FromLE32(bytes, 8) # 36
       \/ FromLE32(bytes, 12) >= 1024
       \/ FromLE16(bytes, 32) >= 512
    THEN Err("InvalidHeader")
    ELSE [k |-> "ok",
          version |-> FromLE32(bytes, 4),
          archive_flags |-> FromLE32(bytes, 12),
          folder_count |-> FromLE32(bytes, 16),
          file_count |-> FromLE32(bytes, 20),
          total_folder_name_len |-> FromLE32(bytes, 24),
          total_file_name_len |-> FromLE32(bytes, 28),
          file_flags |-> FromLE16(bytes, 32)]

FolderRecordLen(header) == IF header.version = 105 THEN 24 ELSE 16

\* The File that RawArchive::new builds from the file record at offset at,
\* before its name is read: block_len is the whole size word.
RawFileOfRecord(header, bytes, at) ==
    [name |-> <<>>,
     hash |-> HashFromBytes(bytes, at),
     block_len |-> FromLE32(bytes, at + 8),
     block_offset |-> FromLE32(bytes, at + 12),
     compression |->
        IF (IF (FromLE32(bytes, at + 8) \div NEGATE_COMPRESSION) % 2 # 0
            THEN ~HasFlag(header.archive_flags, COMPRESSED)
            ELSE HasFlag(header.archive_flags, COMPRESSED))
        THEN Some(IF header.version = 105 THEN "lz4" ELSE "zlib")
        ELSE None]

\* BytesExt::read_bzstring at offset pos of a block that ends at offset stop.
RawReadBzstring(bytes, pos, stop) ==
    IF pos >= stop \/ stop - (pos + 1) < bytes[pos + 1] THEN Err("Eof")
    ELSE Only({IF ~Contains(name, 0) THEN Err("MissingNul")
               ELSE IF FirstPos(name, 0) # Len(name) THEN Err("EmbeddedNul")
               ELSE [k |-> "ok", name |-> DecodeString(SubSeq(name, 1, Len(name) - 1)),
                     consumed |-> 1 + Len(name)] :
                  name \in {Slice(bytes, pos + 1, pos + 1 + bytes[pos + 1])}})

\* The loop of RawArchive::new over the folder records, from record k on:
\* pos is the offset of the reader in the file record blocks, which end at
\* stop, and ds the directories built so far.
RECURSIVE RawFolderLoop(_, _, _, _, _, _)
RawFolderLoop(header, bytes, k, pos, stop, ds) ==
    IF k > header.folder_count THEN [k |-> "ok", dirs |-> ds]
    ELSE Only({
        IF name.k # "ok" THEN name
        ELSE IF stop - (pos + name.consumed) < count * SizeOfFileRecord THEN Err("Eof")
        ELSE RawFolderLoop(header, bytes, k + 1,
                pos + name.consumed + count * SizeOfFileRecord, stop,
                Append(ds,
                    [name |-> [i \in 1..Len(name.name) |->
                                  IF name.name[i] = 92 THEN 47 ELSE name.name[i]],
                     hash |-> HashFromBytes(bytes, at),
                     files |-> [j \in 1..count |->
                        RawFileOfRecord(header, bytes,
                            pos + name.consumed + (j - 1) * SizeOfFileRecord)]])) :
        at \in {SizeOfRawHeader + (k - 1) * FolderRecordLen(header)},
        count \in {FromLE32(bytes, SizeOfRawHeader + (k - 1) * FolderRecordLen(header) + 8)},
        name \in {RawReadBzstring(bytes, pos, stop)}})

\* RawArchive::new after the header: the three reads and the loop.
RawArchiveOfHeader(header, bytes) ==
    Only({
        IF Remaining(bytes, SizeOfRawHeader) < header.folder_count * FolderRecordLen(header)
        THEN Err("Io")
        ELSE IF Remaining(bytes, blocks_at) < blocks_len + header.total_file_name_len
        THEN Err("Io")
        ELSE Only({
            IF folders.k # "ok" THEN folders
            ELSE IF Cardinality({q \in 1..Len(nb) : nb[q] = 0})
                        < SumSeq([k \in 1..Len(folders.dirs) |-> Len(folders.dirs[k].files)])
            THEN Err("MissingNul")
            ELSE [k |-> "ok",
                  version |-> header.version,
                  embed_file_names |-> header.version # 103
                                       /\ HasFlag(header.archive_flags, EMBED_FILENAMES),
                  dirs |-> WithNames(folders.dirs, nb)] :
            folders \in {RawFolderLoop(header, bytes, 1, blocks_at,
                                       blocks_at + blocks_len, <<>>)},
            nb \in {Slice(bytes, blocks_at + blocks_len,
                          blocks_at + blocks_len + header.total_file_name_len)}}) :
        blocks_at \in {SizeOfRawHeader + header.folder_count * FolderRecordLen(header)},
        blocks_len \in {header.file_count * SizeOfFileRecord + header.folder_count
                        + header.total_folder_name_len}})

\* RawArchive::new on a source that holds bytes.
RawArchiveNew(bytes) ==
    IF Len(bytes) < SizeOfRawHeader THEN Err("Io")
    ELSE Only({IF header.k # "ok" THEN header ELSE RawArchiveOfHeader(header, bytes) :
                  header \in {RawHeaderFromBytes(bytes)}})

\* FileBlock::from_bytes
FileBlockFromBytes(data, compressed, embed_filenames) ==
    IF embed_filenames /\ (Len(data) < 1 \/ Len(data) - 1 < data[1]) THEN Err("Eof")
    ELSE IF embed_filenames /\ Contains(SubSeq(data, 2, 1 + data[1]), 0)
    THEN Err("EmbeddedNul")
    ELSE IF compressed /\ Len(data) - (IF embed_filenames THEN 1 + data[1] ELSE 0) < 4
    THEN Err("Eof")
    ELSE [k |-> "ok",
          embedded_name_len |-> IF embed_filenames THEN Some(data[1]) ELSE None,
          uncompressed_len |->
              IF compressed
              THEN Some(FromLE32(data, IF embed_filenames THEN 1 + data[1] ELSE 0))
              ELSE None,
          data |-> data]

\* The offset of FileBlock::raw_data and ::into_raw_data in the block.
RawDataOffset(fb) ==
    (IF IsSome(fb.embedded_name_len) THEN 1 + Unwrap(fb.embedded_name_len) ELSE 0)
    + (IF IsSome(fb.uncompressed_len) THEN 4 ELSE 0)
RawData(fb) == Slice(fb.data, RawDataOffset(fb), Len(fb.data))

\* r.seek(SeekFrom::Start(offset)) on a reader at pos: the new position.
SeekNowhere(pos, offset) == pos
SeekStart(pos, offset) == offset

\* Dropping the RefMut that file_block holds: whether the RefCell is still
\* borrowed afterwards.
DropRefMut(borrowed) == FALSE

\* The rest of RawArchive::file_block for a reader that seek has left at
\* offset at of a source that holds bytes.
FileBlockOf(bytes, at, embed_file_names, file) ==
    IF Remaining(bytes, at) < file.block_len THEN Err("Io")
    ELSE FileBlockFromBytes(Slice(bytes, at, at + file.block_len),
                            IsSome(file.compression), embed_file_names)

\* save_file_to: what the writer has received, or an error.
SaveFileTo(fb, compression) ==
    IF IsSome(compression)
    THEN Only({IF IsSome(d) THEN [k |-> "ok", data |-> Unwrap(d)] ELSE Err("Io") :
                  d \in {DecodeAll(Unwrap(compression), RawData(fb))}})
    ELSE [k |-> "ok", data |-> RawData(fb)]

(***************************************************************************)
(* The read specification: an archive file is opened with BsaArchive and   *)
(* with RawArchive, and entries are opened and extracted.  The files are   *)
(* those BsaWriter writes for a few small archives, with the size words of *)
(* the file records as written or as the format has them (the size of the  *)
(* whole block, prefixes included), and with bit 30 of one record set.     *)
(***************************************************************************)
MaxReadFiles == 3

\* a/x.dds with [1, 2], b/x.dds with [], a/y.nif with [3]
ReadFiles ==
    <<[path |-> <<97, 47, 120, 46, 100, 100, 115>>, data |-> <<1, 2>>],
      [path |-> <<98, 47, 120, 46, 100, 100, 115>>, data |-> <<>>],
      [path |-> <<97, 47, 121, 46, 110, 105, 102>>, data |-> <<3>>]>>

\* The writer after add of the first n of ReadFiles.
RECURSIVE AddAll(_, _)
AddAll(w, n) ==
    IF n = 0 THEN w
    ELSE Only({WriterAdd(v, ReadFiles[n].path, ReadFiles[n].data).w : v \in {AddAll(w, n - 1)}})

\* The offset of the size word of the j-th file record of the k-th
\* directory, for directories ds whose names are stored with their NUL.
SizeWordAt(fmt, ds, k, j) ==
    SizeOfRawHeader + Len(ds) * fmt.folder_record
    + SumSeq([x \in 1..(k - 1) |-> 1 + Len(ds[x].name) + SizeOfFileRecord * Len(ds[x].files)])
    + 1 + Len(ds[k].name) + SizeOfFileRecord * (j - 1) + 8

\* The bytes `base` with the size word at offset at set to the size of the
\* whole block if inclusive, and with bit 30 set if negate.
WithSizeWord(base, at, prefix, inclusive, negate) ==
    Overwrite(base, at,
        LE32(FromLE32(base, at) + (IF inclusive THEN prefix ELSE 0)
             + (IF negate THEN NEGATE_COMPRESSION ELSE 0)))

\* The archive file of the writer w, its size words patched from the i-th
\* file (in the order of the records) on.
RECURSIVE ArchiveFile(_, _, _, _, _, _, _)
ArchiveFile(fmt, w, ds, es, i, inclusive, negate_at) ==
    IF i > Len(es) THEN WriteToInner(fmt, w)
    ELSE Only({
        WithSizeWord(base, at,
            (IF fmt.can_embed /\ HasFlag(w.archive_flags, EMBED_FILENAMES)
             THEN Len(EmbeddedName(es[i])) ELSE 0)
            + (IF HasFlag(w.archive_flags, COMPRESSED) THEN 4 ELSE 0),
            inclusive, negate_at = i) :
        base \in {ArchiveFile(fmt, w, ds, es, i + 1, inclusive, negate_at)},
        at \in {Only({SizeWordAt(fmt, ds, k, j) :
                        k \in {k \in 1..Len(ds) : es[i].dir = ds[k]},
                        j \in {j \in 1..Len(es[i].dir.files) :
                                  es[i].dir.files[j] = es[i].file}})}})

ArchiveFiles(fmt) ==
    {Only({ArchiveFile(fmt, w, ds, FilesInOrder(ds), 1, inclusive, negate_at) :
              ds \in {SortedDirs(w)}}) :
        w \in {[AddAll(NewWriter, n) EXCEPT !.archive_flags = @ + c + e] :
                 n \in 1..Min(MaxReadFiles, Len(ReadFiles)),
                 c \in {0, COMPRESSED}, e \in {0, EMBED_FILENAMES}},
        inclusive \in BOOLEAN,
        negate_at \in 0..Min(MaxReadFiles, Len(ReadFiles))}

InitRead ==
    /\ IdleNotRead
    /\ w_fmt \in Formats
    /\ w_writer = "file"
    /\ w_pc = "written"
    /\ w_sink \in ArchiveFiles(w_fmt)
    /\ r_archive = [k |-> "none"]
    /\ r_entry = [k |-> "none"]
    /\ r_raw = [k |-> "none"]
    /\ x_pos = 0
    /\ x_borrowed = FALSE
    /\ x_failed = FALSE

\* archive.read_file_block(index), and reading the block's data to its end.
ReadFileBlockEntry(folder, file) ==
    /\ r_archive.k = "ok"
    /\ folder < Len(r_archive.dirs)
    /\ file < Len(r_archive.dirs[folder + 1].files)
    /\ \E st \in {ReadFileBlock(w_fmt, r_archive.header, w_sink,
                                r_archive.dirs[folder + 1].files[file + 1])} :
          r_entry' = [k |-> "opened", via |-> "read_file_block",
                      folder |-> folder, file |-> file, st |-> st,
                      res |-> IF st.k = "ok" THEN [k |-> "ok", data |-> Taken(w_sink, st)]
                              ELSE st]
    /\ UNCHANGED <<w_fmt, w_writer, w_pc, w_sink, r_archive, varsRaw, othersRead>>

\* RawArchive::new(file)
RawNew ==
    /\ w_pc = "written"
    /\ r_raw.k = "none"
    /\ r_raw' = RawArchiveNew(w_sink)
    /\ x_pos' = IF RawArchiveNew(w_sink).k = "ok"
                THEN SizeOfRawHeader
                     + FromLE32(w_sink, 16) * (IF FromLE32(w_sink, 4) = 105 THEN 24 ELSE 16)
                     + FromLE32(w_sink, 20) * SizeOfFileRecord + FromLE32(w_sink, 16)
                     + FromLE32(w_sink, 24) + FromLE32(w_sink, 28)
                ELSE x_pos
    /\ UNCHANGED <<x_borrowed, x_failed, varsTes4, othersRead>>

\* EntriesImpl::extract_to(index, writer): file_block borrows the reader,
\* seeks, reads the block and lets go of the borrow; save_file_to writes
\* the data.  A read that fails leaves the reader where it was or at the
\* end of the source.  The entry keeps, in `after`, whether an extraction
\* had failed before this one, and in `pc` where the driver of extractN was.  RawArchive is not Sync: no extraction runs
\* while a driver of extractN is between its call and its return.
ExtractTo(folder, file) ==
    /\ r_raw.k = "ok"
    /\ e_pc \in {"off", "idle", "done"}
    /\ ~x_borrowed
    /\ folder < Len(r_raw.dirs)
    /\ file < Len(r_raw.dirs[folder + 1].files)
    /\ \E f \in {r_raw.dirs[folder + 1].files[file + 1]} :
       \E at \in {SeekStart(x_pos, f.block_offset)} :
       \E fb \in {FileBlockOf(w_sink, at, r_raw.embed_file_names, f)} :
       \E res \in {IF fb.k = "ok" THEN SaveFileTo(fb, f.compression) ELSE fb} :
          /\ r_entry' = [k |-> "opened", via |-> "extract_to", after |-> x_failed,
                         pc |-> e_pc,
                         folder |-> folder, file |-> file,
                         st |-> IF fb.k = "ok"
                                THEN Stream("raw", at + RawDataOffset(fb), Len(RawData(fb)), 0)
                                ELSE fb,
                         res |-> res]
          /\ x_pos' \in IF Remaining(w_sink, at) < f.block_len
                        THEN {at, Len(w_sink)}
                        ELSE {at + f.block_len}
          /\ x_borrowed' = DropRefMut(TRUE)
          /\ x_failed' = (x_failed \/ res.k # "ok")
    /\ UNCHANGED <<r_raw, w_fmt, w_writer, w_pc, w_sink, r_archive, othersRead>>

NextRead ==
    \/ ArchiveNew
    \/ \E folder \in 0..(MaxReadFiles - 1), file \in 0..(MaxReadFiles - 1) :
          OpenEntry(folder, file)
    \/ \E folder \in 0..(MaxReadFiles - 1), file \in 0..(MaxReadFiles - 1) :
          ReadFileBlockEntry(folder, file)
    \/ RawNew
    \/ \E folder \in 0..(MaxReadFiles - 1), file \in 0..(MaxReadFiles - 1) :
          ExtractTo(folder, file)

SpecRead == InitRead /\ [][NextRead]_vars

\* The file an opened entry belongs to, as the record [offset, raw_size,
\* compressed] of the archive it was opened from, and whether that archive
\* embeds names.
EntryFile ==
    IF r_entry.via = "extract_to"
    THEN [offset |-> r_raw.dirs[r_entry.folder + 1].files[r_entry.file + 1].block_offset,
          raw_size |-> r_raw.dirs[r_entry.folder + 1].files[r_entry.file + 1].block_len,
          compressed |->
              IsSome(r_raw.dirs[r_entry.folder + 1].files[r_entry.file + 1].compression),
          embed |-> r_raw.embed_file_names]
    ELSE [offset |-> r_archive.dirs[r_entry.folder + 1].files[r_entry.file + 1].offset,
          raw_size |-> r_archive.dirs[r_entry.folder + 1].files[r_entry.file + 1].raw_size,
          compressed |-> r_archive.dirs[r_entry.folder + 1].files[r_entry.file + 1].compressed,
          embed |-> EmbedFilenames(w_fmt, r_archive.header)]

\* The length of the prefixes of the block of the opened entry: the
\* embedded name with its length byte, and the 4 bytes of the length.
EntryPrefixLen ==
    (IF EntryFile.embed THEN 1 + w_sink[EntryFile.offset + 1] ELSE 0)
    + (IF EntryFile.compressed THEN 4 ELSE 0)

(***************************************************************************)
(* C4.  An entry that opens gives as its payload the bytes of the block    *)
(* [offset, offset + raw_size) that follow the prefixes: the payload       *)
(* starts right after the embedded name (if the archive embeds names) and  *)
(* the 4-byte length (if the file is compressed), and ends where the block *)
(* ends.                                                                   *)
(***************************************************************************)
C4_PayloadIsRestOfBlock ==
    (r_entry.k = "opened" /\ r_entry.st.k = "ok") =>
        /\ r_entry.st.start = EntryFile.offset + EntryPrefixLen
        /\ r_entry.st.start + r_entry.st.limit = EntryFile.offset + EntryFile.raw_size

\* Bit 2 (COMPRESSED) of the archive flags of the file, and bit 30 of the
\* 32-bit word at offset at of the file.
ArchiveCompressedBit == (w_sink[13] \div 4) % 2 = 1
Bit30At(at) == (w_sink[at + 4] \div 64) % 2 = 1

\* The offset of the size word of the j-th record of the k-th directory of
\* the file, from the lengths of the directory names and the file counts.
SizeWordOf(lens, counts, k, j) ==
    SizeOfRawHeader + Len(lens) * w_fmt.folder_record
    + SumSeq([x \in 1..(k - 1) |-> 2 + lens[x] + SizeOfFileRecord * counts[x]])
    + 2 + lens[k] + SizeOfFileRecord * (j - 1) + 8
BsaSizeWord(k, j) ==
    SizeWordOf([x \in 1..Len(r_archive.dirs) |-> Len(Unwrap(r_archive.dirs[x].name))],
               [x \in 1..Len(r_archive.dirs) |-> Len(r_archive.dirs[x].files)], k, j)
RawSizeWord(k, j) ==
    SizeWordOf([x \in 1..Len(r_raw.dirs) |-> Len(r_raw.dirs[x].name)],
               [x \in 1..Len(r_raw.dirs) |-> Len(r_raw.dirs[x].files)], k, j)

(***************************************************************************)
(* C5.  In an archive that BsaArchive::new or RawArchive::new has opened,  *)
(* a file is compressed iff exactly one of the archive's COMPRESSED flag   *)
(* and bit 30 of the size word of the file's record is set.                *)
(***************************************************************************)
C5_EffectiveCompression ==
    /\ r_archive.k = "ok" =>
         \A k \in 1..Len(r_archive.dirs) : \A j \in 1..Len(r_archive.dirs[k].files) :
            r_archive.dirs[k].files[j].compressed
                = (ArchiveCompressedBit # Bit30At(BsaSizeWord(k, j)))
    /\ r_raw.k = "ok" =>
         \A k \in 1..Len(r_raw.dirs) : \A j \in 1..Len(r_raw.dirs[k].files) :
            IsSome(r_raw.dirs[k].files[j].compression)
                = (ArchiveCompressedBit # Bit30At(RawSizeWord(k, j)))

\* Both readers have opened an archive with COMPRESSED set in which a
\* record has bit 30 set, and hold that record's file as not compressed.
C5_Witness ==
    /\ r_archive.k = "ok"
    /\ r_raw.k = "ok"
    /\ ArchiveCompressedBit
    /\ \E k \in 1..Len(r_archive.dirs) : \E j \in 1..Len(r_archive.dirs[k].files) :
          /\ Bit30At(BsaSizeWord(k, j))
          /\ ~r_archive.dirs[k].files[j].compressed
          /\ ~IsSome(r_raw.dirs[k].files[j].compression)

(***************************************************************************)
(* The extraction strategies of RawArchive.  The output directory is a     *)
(* set of directories and a set of files, each a path with its content;    *)
(* paths are relative to `out`.  The file system refuses to create the     *)
(* paths of `bad`, and a file whose directory does not exist.              *)
(***************************************************************************)
NumWorkers == 2

\* The output directory `out` when it is empty: <<>> is its own path.
EmptyFs == [dirs |-> {<<>>}, files |-> {}]

\* out.join(&dir.name) and folder_path.join(&file.name)
FolderPath(dir) == dir.name
FilePath(dir, file) == dir.name \o <<47>> \o Unwrap(file.name)

\* fs::create_dir_all(path)
CreateDirAll(fs, bad, path) ==
    IF path \in bad THEN [k |-> "err", fs |-> fs]
    ELSE [k |-> "ok", fs |-> [fs EXCEPT !.dirs = @ \cup {path}]]

\* The file system after File::create(path) and the writes of data to it.
WriteFile(fs, path, data) ==
    [fs EXCEPT !.files = {f \in @ : f.path # path} \cup {[path |-> path, data |-> data]}]

\* fs::write(path, data)
FsWrite(fs, bad, path, parent, data) ==
    IF path \in bad \/ parent \notin fs.dirs THEN [k |-> "err", fs |-> fs]
    ELSE [k |-> "ok", fs |-> WriteFile(fs, path, data)]

\* save_file(file_block, path, compression): File::create, which leaves an
\* empty file, and save_file_to into it.
SaveFile(fs, bad, fb, path, parent, compression) ==
    IF path \in bad \/ parent \notin fs.dirs THEN [k |-> "err", fs |-> fs]
    ELSE Only({[k |-> res.k,
                fs |-> WriteFile(fs, path, IF res.k = "ok" THEN res.data ELSE <<>>)] :
                  res \in {SaveFileTo(fb, compression)}})

\* decompress(file_block, compression): the data, or an error.
Decompress(fb, compression) ==
    IF IsSome(compression)
    THEN Only({IF IsSome(d) THEN [k |-> "ok", data |-> Unwrap(d)] ELSE Err("Io") :
                  d \in {DecodeExact(Unwrap(compression), RawData(fb),
                                     Unwrap(fb.uncompressed_len))}})
    ELSE [k |-> "ok", data |-> RawData(fb)]

\* The steps of the two nested loops of _extract1, _extract2 and _extract3
\* over the directories and their files, in order: with_dirs for the loops
\* that create the directory of a folder before they turn to its files.
DriverPlan(raw, with_dirs) ==
    Flatten([k \in 1..Len(raw.dirs) |->
        (IF with_dirs THEN <<[op |-> "dir", k |-> k, j |-> 0]>> ELSE <<>>)
        \o [j \in 1..Len(raw.dirs[k].files) |-> [op |-> "file", k |-> k, j |-> j]]])

\* What a closure handed to a pool owns: the paths, the block and the
\* compression of the file of step id of the plan.
JobOf(raw, id, op, fb) ==
    [id |-> id,
     path |-> FilePath(raw.dirs[op.k], raw.dirs[op.k].files[op.j]),
     parent |-> FolderPath(raw.dirs[op.k]),
     fb |-> fb,
     compression |-> raw.dirs[op.k].files[op.j].compression]

\* _extract1 from step i of its loops on: how it returns, the output
\* directory it leaves, where it leaves the reader (or, after a short read,
\* where the read began), and whether it has borrowed the reader.
RECURSIVE Extract1From(_, _, _, _, _, _, _)
Extract1From(raw, bytes, bad, i, fs, pos, read) ==
    IF i > Len(DriverPlan(raw, TRUE))
    THEN [k |-> "ok", fs |-> fs, pos |-> pos, short |-> FALSE, read |-> read]
    ELSE Only({
        IF op.op = "dir"
        THEN Only({
            IF made.k # "ok"
            THEN [k |-> "err", e |-> [e |-> "Io", id |-> i], fs |-> fs, pos |-> pos,
                  short |-> FALSE, read |-> read]
            ELSE Extract1From(raw, bytes, bad, i + 1, made.fs, pos, read) :
            made \in {CreateDirAll(fs, bad, FolderPath(raw.dirs[op.k]))}})
        ELSE Only({
            IF fb.k # "ok"
            THEN [k |-> "err", e |-> [e |-> fb.e, id |-> i], fs |-> fs,
                  pos |-> IF Remaining(bytes, at) < f.block_len THEN at ELSE at + f.block_len,
                  short |-> Remaining(bytes, at) < f.block_len, read |-> TRUE]
            ELSE Only({
                IF saved.k # "ok"
                THEN [k |-> "err", e |-> [e |-> "Io", id |-> i], fs |-> saved.fs,
                      pos |-> at + f.block_len, short |-> FALSE, read |-> TRUE]
                ELSE Extract1From(raw, bytes, bad, i + 1, saved.fs, at + f.block_len, TRUE) :
                saved \in {SaveFile(fs, bad, fb, FilePath(raw.dirs[op.k], f),
                                    FolderPath(raw.dirs[op.k]), f.compression)}}) :
            f \in {raw.dirs[op.k].files[op.j]},
            at \in {SeekStart(pos, raw.dirs[op.k].files[op.j].block_offset)},
            fb \in {FileBlockOf(bytes,
                        SeekStart(pos, raw.dirs[op.k].files[op.j].block_offset),
                        raw.embed_file_names, raw.dirs[op.k].files[op.j])}}) :
        op \in {DriverPlan(raw, TRUE)[i]}})

(***************************************************************************)
(* The extraction specification: a RawArchive is opened on an archive file *)
(* and one of its four strategies extracts it to an empty directory, with  *)
(* the jobs of the pools running beside the driver.  The archive files are *)
(* those of BsaWriter with the size words the format has, one of them with *)
(* bit 30 of a record set, and one with the same name for every file.      *)
(***************************************************************************)
ExtractArchives ==
    {[fmt |-> Tes4, flags |-> 0, negate_at |-> 0, same_names |-> FALSE],
     [fmt |-> Tes4, flags |-> 0, negate_at |-> 2, same_names |-> FALSE],
     [fmt |-> Tes4, flags |-> 0, negate_at |-> 0, same_names |-> TRUE],
     [fmt |-> Tes5, flags |-> COMPRESSED + EMBED_FILENAMES, negate_at |-> 0,
      same_names |-> FALSE],
     [fmt |-> Sse, flags |-> COMPRESSED, negate_at |-> 0, same_names |-> FALSE]}

\* The offset of the file names block, from the counts of the header.
FileNamesAt(bytes) ==
    SizeOfRawHeader + FromLE32(bytes, 16) * (IF FromLE32(bytes, 4) = 105 THEN 24 ELSE 16)
    + FromLE32(bytes, 20) * SizeOfFileRecord + FromLE32(bytes, 16) + FromLE32(bytes, 24)

\* The archive file with the first name of its file names block in the
\* place of every name of the block (the names are of one length).
WithSameNames(bytes) ==
    Only({Overwrite(bytes, at,
              [i \in 1..FromLE32(bytes, 28) |-> bytes[at + ((i - 1) % len) + 1]]) :
            at \in {FileNamesAt(bytes)},
            len \in {FromLE32(bytes, 28) \div FromLE32(bytes, 20)}})

ExtractFile(a) ==
    Only({IF a.same_names THEN WithSameNames(base) ELSE base :
        base \in {Only({ArchiveFile(a.fmt, w, ds, FilesInOrder(ds), 1, TRUE, a.negate_at) :
                          ds \in {SortedDirs(w)}}) :
                    w \in {[AddAll(NewWriter, Min(MaxReadFiles, Len(ReadFiles)))
                               EXCEPT !.archive_flags = @ + a.flags]}}})

\* a, b, a/x.dds, b/x.dds
BadPaths == {<<97>>, <<98>>, <<97, 47, 120, 46, 100, 100, 115>>,
             <<98, 47, 120, 46, 100, 100, 115>>}

InitExt ==
    /\ IdleNotExt
    /\ \E a \in ExtractArchives : w_fmt = a.fmt /\ w_sink = ExtractFile(a)
    /\ w_writer = "file"
    /\ w_pc = "written"
    /\ r_archive = [k |-> "none"]
    /\ r_entry = [k |-> "none"]
    /\ r_raw = [k |-> "none"]
    /\ x_pos = 0
    /\ x_borrowed = FALSE
    /\ x_failed = FALSE
    /\ e_pc = "idle"
    /\ e_strategy = 0
    /\ e_at = 0
    /\ e_queue = <<>>
    /\ e_running = {}
    /\ e_unc = <<>>
    /\ e_writes = {}
    /\ e_errors = <<>>
    /\ e_fs = EmptyFs
    /\ e_bad \in {{}} \cup {{p} : p \in BadPaths}
    /\ e_result = [k |-> "none"]
    /\ e_hist = [out |-> EmptyFs, erred |-> FALSE, late |-> FALSE, failed |-> FALSE,
                 panics |-> 0]

\* The steps of the driver's loops.
Plan == DriverPlan(r_raw, e_strategy # 3)

\* The jobs handed to a pool and not finished.
Pending == Len(e_queue) + Cardinality(e_running) + Cardinality(e_writes)

\* What extractN returns with: Ok or the error, and beside it how many jobs
\* are not finished, whether a job has failed, the errors on the channel
\* and the output directory fs, all at the return.
Returned(k, e, fs) ==
    [k |-> k, e |-> e, pending |-> Pending, failed |-> e_hist.failed, channel |-> e_errors,
     fs |-> fs]

\* RawArchive::extract1(out)
Extract1 ==
    /\ r_raw.k = "ok"
    /\ e_pc = "idle"
    /\ ~x_borrowed
    /\ \E run \in {Extract1From(r_raw, w_sink, e_bad, 1, e_fs, x_pos, FALSE)} :
          /\ e_fs' = run.fs
          /\ e_result' = Returned(run.k, IF run.k = "ok" THEN <<>> ELSE run.e, run.fs)
          /\ x_pos' \in IF run.short THEN {run.pos, Len(w_sink)} ELSE {run.pos}
          /\ x_borrowed' = IF run.read THEN DropRefMut(TRUE) ELSE x_borrowed
          /\ x_failed' = (x_failed \/ run.k # "ok")
          /\ e_hist' = [e_hist EXCEPT !.out = e_fs, !.erred = run.k # "ok"]
    /\ e_strategy' = 1
    /\ e_pc' = "done"
    /\ UNCHANGED <<e_at, e_queue, e_running, e_unc, e_writes, e_errors, e_bad, othersExt>>

\* RawArchive::extract2(out) and ::extract3(out) up to their loops: the
\* pool and the channels are there.
ExtractBegin(n) ==
    /\ r_raw.k = "ok"
    /\ e_pc = "idle"
    /\ ~x_borrowed
    /\ e_strategy' = n
    /\ e_pc' = "sweep"
    /\ e_at' = 1
    /\ e_hist' = [e_hist EXCEPT !.out = e_fs]
    /\ UNCHANGED <<x_pos, x_borrowed, x_failed, e_queue, e_running, e_unc, e_writes,
                   e_errors, e_fs, e_bad, e_result, othersExt>>

\* One turn of the outer loop of _extract2: create_dir_all, and the return
\* of its error by `?`.
SweepDir ==
    /\ e_pc = "sweep"
    /\ e_at <= Len(Plan)
    /\ Plan[e_at].op = "dir"
    /\ \E made \in {CreateDirAll(e_fs, e_bad, FolderPath(r_raw.dirs[Plan[e_at].k]))} :
          /\ e_fs' = made.fs
          /\ IF made.k = "ok"
             THEN /\ e_at' = e_at + 1
                  /\ UNCHANGED <<e_pc, e_result, e_hist, x_failed>>
             ELSE /\ e_pc' = "done"
                  /\ e_result' = Returned("err", [e |-> "Io", id |-> e_at], e_fs)
                  /\ e_hist' = [e_hist EXCEPT !.erred = TRUE]
                  /\ x_failed' = TRUE
                  /\ UNCHANGED e_at
    /\ UNCHANGED <<x_pos, x_borrowed, e_strategy, e_queue, e_running, e_unc, e_writes,
                   e_errors, e_bad, othersExt>>

\* One turn of the inner loop of _extract2 and _extract3: file_block, the
\* return of its error by `?`, and pool.execute of the closure.
SweepFile ==
    /\ e_pc = "sweep"
    /\ e_at <= Len(Plan)
    /\ Plan[e_at].op = "file"
    /\ \E op \in {Plan[e_at]} :
       \E f \in {r_raw.dirs[op.k].files[op.j]} :
       \E at \in {SeekStart(x_pos, f.block_offset)} :
       \E fb \in {FileBlockOf(w_sink, at, r_raw.embed_file_names, f)} :
          /\ x_pos' \in IF Remaining(w_sink, at) < f.block_len
                        THEN {at, Len(w_sink)}
                        ELSE {at + f.block_len}
          /\ x_borrowed' = DropRefMut(TRUE)
          /\ IF fb.k = "ok"
             THEN /\ e_queue' = Append(e_queue, JobOf(r_raw, e_at, op, fb))
                  /\ e_at' = e_at + 1
                  /\ e_hist' = [e_hist EXCEPT !.late = @ \/ e_hist.erred]
                  /\ UNCHANGED <<e_pc, e_result, x_failed>>
             ELSE /\ e_pc' = "done"
                  /\ e_result' = Returned("err", [e |-> fb.e, id |-> e_at], e_fs)
                  /\ e_hist' = [e_hist EXCEPT !.erred = TRUE]
                  /\ x_failed' = TRUE
                  /\ UNCHANGED <<e_at, e_queue>>
    /\ UNCHANGED <<e_strategy, e_running, e_unc, e_writes, e_errors, e_fs, e_bad, othersExt>>

\* A worker of the pool takes the job at the head of the queue.  The
\* workers outlive the ThreadPool the driver drops when it returns.
WorkerTake ==
    /\ e_strategy \in {2, 3}
    /\ e_queue # <<>>
    /\ Cardinality(e_running) < NumWorkers
    /\ e_running' = e_running \cup {Head(e_queue)}
    /\ e_queue' = Tail(e_queue)
    /\ UNCHANGED <<x_pos, x_borrowed, x_failed, e_pc, e_strategy, e_at, e_unc, e_writes,
                   e_errors, e_fs, e_bad, e_result, e_hist, othersExt>>

\* The history after a job has failed: sender.send(e).unwrap() panics when
\* the driver has returned and dropped the receiver.
AfterFailure(panics) ==
    [e_hist EXCEPT !.erred = TRUE, !.failed = TRUE,
                   !.panics = @ + (IF panics THEN 1 ELSE 0)]

\* The closure of _extract2: save_file, and the send of its error.
WorkerSave(job) ==
    /\ e_strategy = 2
    /\ job \in e_running
    /\ e_running' = e_running \ {job}
    /\ \E saved \in {SaveFile(e_fs, e_bad, job.fb, job.path, job.parent, job.compression)} :
          /\ e_fs' = saved.fs
          /\ IF saved.k = "ok" THEN UNCHANGED <<e_errors, e_hist>>
             ELSE /\ e_errors' = IF e_pc # "done"
                                 THEN Append(e_errors, [e |-> "Io", id |-> job.id])
                                 ELSE e_errors
                  /\ e_hist' = AfterFailure(e_pc = "done")
    /\ UNCHANGED <<x_pos, x_borrowed, x_failed, e_pc, e_strategy, e_at, e_queue, e_unc,
                   e_writes, e_bad, e_result, othersExt>>

\* The closure of the decompress pool of _extract3: decompress, and the
\* send of the data or of the error.  Both sends are unwrapped.
WorkerDecompress(job) ==
    /\ e_strategy = 3
    /\ job \in e_running
    /\ e_running' = e_running \ {job}
    /\ \E d \in {Decompress(job.fb, job.compression)} :
          /\ e_unc' = IF d.k = "ok" /\ e_pc # "done"
                      THEN Append(e_unc, [id |-> job.id, path |-> job.path,
                                          parent |-> job.parent, data |-> d.data])
                      ELSE e_unc
          /\ e_errors' = IF d.k # "ok" /\ e_pc # "done"
                         THEN Append(e_errors, [e |-> "Io", id |-> job.id])
                         ELSE e_errors
          /\ e_hist' = IF d.k # "ok" THEN AfterFailure(e_pc = "done")
                       ELSE [e_hist EXCEPT !.panics = @ + (IF e_pc = "done" THEN 1 ELSE 0)]
    /\ UNCHANGED <<x_pos, x_borrowed, x_failed, e_pc, e_strategy, e_at, e_queue, e_writes,
                   e_fs, e_bad, e_result, othersExt>>

\* A while loop that would take from the channel during the sweep.
DriverRecvDuringSweep ==
    /\ e_strategy = 3
    /\ e_pc \in {"sweep", "recv"}
    /\ e_unc # <<>>
    /\ e_writes' = e_writes \cup {Head(e_unc)}
    /\ e_unc' = Tail(e_unc)
    /\ e_pc' = IF e_at > Len(Plan) THEN "recv" ELSE e_pc
    /\ e_hist' = [e_hist EXCEPT !.late = @ \/ e_hist.erred]
    /\ UNCHANGED <<x_pos, x_borrowed, x_failed, e_strategy, e_at, e_queue, e_running,
                   e_errors, e_fs, e_bad, e_result, othersExt>>

\* One turn of the while loop of _extract3, after its sweep: recv has a
\* decompressed file, and the write pool gets the closure that writes it.
\* The pool has 64 workers: its jobs do not wait.
DriverRecv ==
    /\ e_strategy = 3
    /\ \/ e_pc = "sweep" /\ e_at > Len(Plan)
       \/ e_pc = "recv"
    /\ e_unc # <<>>
    /\ e_writes' = e_writes \cup {Head(e_unc)}
    /\ e_unc' = Tail(e_unc)
    /\ e_pc' = "recv"
    /\ e_hist' = [e_hist EXCEPT !.late = @ \/ e_hist.erred]
    /\ UNCHANGED <<x_pos, x_borrowed, x_failed, e_strategy, e_at, e_queue, e_running,
                   e_errors, e_fs, e_bad, e_result, othersExt>>

\* A while loop whose driver keeps its own uncompressed_tx: recv blocks on
\* the empty channel and never reports its end.
DriverRecvEndSenderKept ==
    /\ e_strategy = 3
    /\ e_pc = "recv"
    /\ e_unc = <<>>
    /\ e_queue = <<>>
    /\ e_running = {}
    /\ UNCHANGED vars

\* The end of the while loop: recv fails when the channel is empty and the
\* closures of the decompress pool, which own the senders, are gone.
DriverRecvEnd ==
    /\ e_strategy = 3
    /\ \/ e_pc = "sweep" /\ e_at > Len(Plan)
       \/ e_pc = "recv"
    /\ e_unc = <<>>
    /\ e_queue = <<>>
    /\ e_running = {}
    /\ e_pc' = "join"
    /\ UNCHANGED <<x_pos, x_borrowed, x_failed, e_strategy, e_at, e_queue, e_running, e_unc,
                   e_writes, e_errors, e_fs, e_bad, e_result, e_hist, othersExt>>

\* The closure of the write pool: create_dir_all of the parent, fs::write,
\* and the send of the error of the one or the other.
WorkerWrite(job) ==
    /\ e_strategy = 3
    /\ job \in e_writes
    /\ e_writes' = e_writes \ {job}
    /\ \E made \in {CreateDirAll(e_fs, e_bad, job.parent)} :
       \E written \in {IF made.k = "ok"
                       THEN FsWrite(made.fs, e_bad, job.path, job.parent, job.data)
                       ELSE made} :
          /\ e_fs' = written.fs
          /\ IF written.k = "ok" THEN UNCHANGED <<e_errors, e_hist>>
             ELSE /\ e_errors' = Append(e_errors, [e |-> "Io", id |-> job.id])
                  /\ e_hist' = AfterFailure(FALSE)
    /\ UNCHANGED <<x_pos, x_borrowed, x_failed, e_pc, e_strategy, e_at, e_queue, e_running,
                   e_unc, e_bad, e_result, othersExt>>

\* pool.join() of _extract2 and write_pool.join() of _extract3 return when
\* no job of the pool is left, and try_recv on the error channel decides
\* what the driver returns.
DriverJoin ==
    /\ \/ e_strategy = 2 /\ e_pc = "sweep" /\ e_at > Len(Plan)
       \/ e_strategy = 3 /\ e_pc = "join"
    /\ IF e_strategy = 2 THEN e_queue = <<>> /\ e_running = {} ELSE e_writes = {}
    /\ e_pc' = "done"
    /\ e_result' = IF e_errors # <<>> THEN Returned("err", Head(e_errors), e_fs)
                   ELSE Returned("ok", <<>>, e_fs)
    /\ e_errors' = IF e_errors # <<>> THEN Tail(e_errors) ELSE e_errors
    /\ x_failed' = (x_failed \/ e_errors # <<>>)
    /\ UNCHANGED <<x_pos, x_borrowed, e_strategy, e_at, e_queue, e_running, e_unc, e_writes,
                   e_fs, e_bad, e_hist, othersExt>>

\* RawArchive::extract4(out) up to try_for_each: the reader is borrowed,
\* and the files of the flat_map are there for the threads of rayon.
Extract4Begin ==
    /\ r_raw.k = "ok"
    /\ e_pc = "idle"
    /\ ~x_borrowed
    /\ e_strategy' = 4
    /\ e_pc' = "par"
    /\ x_borrowed' = TRUE
    /\ e_queue' = [i \in 1..Len(DriverPlan(r_raw, FALSE)) |->
                      [id |-> i, k |-> DriverPlan(r_raw, FALSE)[i].k,
                       j |-> DriverPlan(r_raw, FALSE)[i].j]]
    /\ e_hist' = [e_hist EXCEPT !.out = e_fs]
    /\ UNCHANGED <<x_pos, x_failed, e_at, e_running, e_unc, e_writes, e_errors, e_fs, e_bad,
                   e_result, othersExt>>

\* A thread of rayon takes a file that no thread has taken, whichever.
ParTake(q) ==
    /\ e_pc = "par"
    /\ q \in 1..Len(e_queue)
    /\ Cardinality(e_running) < NumWorkers
    /\ e_running' = e_running \cup {e_queue[q]}
    /\ e_queue' = SubSeq(e_queue, 1, q - 1) \o SubSeq(e_queue, q + 1, Len(e_queue))
    /\ UNCHANGED <<x_pos, x_borrowed, x_failed, e_pc, e_strategy, e_at, e_unc, e_writes,
                   e_errors, e_fs, e_bad, e_result, e_hist, othersExt>>

\* The closure of try_for_each for one file: read_vec_at, from_bytes,
\* create_dir_all and save_file, each `?`.
ParRun(job) ==
    /\ e_pc = "par"
    /\ job \in e_running
    /\ e_running' = e_running \ {job}
    /\ \E dir \in {r_raw.dirs[job.k]} :
       \E f \in {r_raw.dirs[job.k].files[job.j]} :
       \E fb \in {FileBlockOf(w_sink, r_raw.dirs[job.k].files[job.j].block_offset,
                              r_raw.embed_file_names, r_raw.dirs[job.k].files[job.j])} :
       \E made \in {IF fb.k = "ok" THEN CreateDirAll(e_fs, e_bad, FolderPath(dir))
                    ELSE [k |-> "err", fs |-> e_fs]} :
       \E saved \in {IF made.k = "ok"
                     THEN SaveFile(made.fs, e_bad, fb, FilePath(dir, f), FolderPath(dir),
                                   f.compression)
                     ELSE made} :
          /\ e_fs' = saved.fs
          /\ IF saved.k = "ok" THEN UNCHANGED <<e_errors, e_hist>>
             ELSE /\ e_errors' = Append(e_errors, [e |-> IF fb.k = "ok" THEN "Io" ELSE fb.e,
                                                   id |-> job.id])
                  /\ e_hist' = AfterFailure(FALSE)
    /\ UNCHANGED <<x_pos, x_borrowed, x_failed, e_pc, e_strategy, e_at, e_queue, e_unc,
                   e_writes, e_bad, e_result, othersExt>>

\* try_for_each returns when its threads are done: with one of the errors
\* if there is one, and then it need not have taken every file.
ParEnd ==
    /\ e_pc = "par"
    /\ e_running = {}
    /\ e_queue = <<>> \/ e_errors # <<>>
    /\ e_pc' = "done"
    /\ \E e \in IF e_errors = <<>> THEN {<<>>} ELSE {e_errors[i] : i \in 1..Len(e_errors)} :
          e_result' = Returned(IF e_errors = <<>> THEN "ok" ELSE "err", e, e_fs)
    /\ x_borrowed' = FALSE
    /\ x_failed' = (x_failed \/ e_errors # <<>>)
    /\ UNCHANGED <<x_pos, e_strategy, e_at, e_queue, e_running, e_unc, e_writes, e_errors,
                   e_fs, e_bad, e_hist, othersExt>>

\* EntriesImpl::extract(index, path) to a path in `out` itself: file_block
\* as in extract_to, then save_file.
Extract(folder, file) ==
    /\ r_raw.k = "ok"
    /\ e_pc \in {"idle", "done"}
    /\ ~x_borrowed
    /\ folder < Len(r_raw.dirs)
    /\ file < Len(r_raw.dirs[folder + 1].files)
    /\ \E f \in {r_raw.dirs[folder + 1].files[file + 1]} :
       \E at \in {SeekStart(x_pos, f.block_offset)} :
       \E fb \in {FileBlockOf(w_sink, at, r_raw.embed_file_names, f)} :
       \E saved \in {IF fb.k = "ok"
                     THEN SaveFile(e_fs, e_bad, fb, Unwrap(f.name), <<>>, f.compression)
                     ELSE [k |-> "err", fs |-> e_fs]} :
          /\ r_entry' = [k |-> "opened", via |-> "extract", after |-> x_failed,
                         pc |-> e_pc,
                         folder |-> folder, file |-> file,
                         st |-> IF fb.k = "ok"
                                THEN Stream("raw", at + RawDataOffset(fb), Len(RawData(fb)), 0)
                                ELSE fb,
                         res |-> IF fb.k # "ok" THEN fb
                                 ELSE IF saved.k # "ok" THEN Err("Io")
                                 ELSE [k |-> "ok",
                                       data |-> Only({g.data : g \in {g \in saved.fs.files :
                                                        g.path = Unwrap(f.name)}})]]
          /\ e_fs' = saved.fs
          /\ x_pos' \in IF Remaining(w_sink, at) < f.block_len
                        THEN {at, Len(w_sink)}
                        ELSE {at + f.block_len}
          /\ x_borrowed' = DropRefMut(TRUE)
          /\ x_failed' = (x_failed \/ saved.k # "ok")
    /\ UNCHANGED <<r_raw, w_fmt, w_writer, w_pc, w_sink, r_archive, varsIter, varsHash,
                   varsTes3, varsFo4, e_pc, e_strategy, e_at, e_queue, e_running, e_unc,
                   e_writes, e_errors, e_bad, e_result, e_hist>>

NextExt ==
    \/ RawNew
    \/ Extract1
    \/ \E n \in {2, 3} : ExtractBegin(n)
    \/ SweepDir
    \/ SweepFile
    \/ WorkerTake
    \/ \E job \in e_running : WorkerSave(job)
    \/ \E job \in e_running : WorkerDecompress(job)
    \/ DriverRecv
    \/ DriverRecvEnd
    \/ \E job \in e_writes : WorkerWrite(job)
    \/ DriverJoin
    \/ Extract4Begin
    \/ \E q \in 1..MaxReadFiles : ParTake(q)
    \/ \E job \in e_running : ParRun(job)
    \/ ParEnd
    \/ \E folder \in 0..(MaxReadFiles - 1), file \in 0..(MaxReadFiles - 1) :
          ExtractTo(folder, file)
    \/ \E folder \in 0..(MaxReadFiles - 1), file \in 0..(MaxReadFiles - 1) :
          Extract(folder, file)

SpecExt == InitExt /\ [][NextExt]_vars

\* Every file-block read of the archive succeeds: file_block returns a
\* block for every file of every directory.
EveryBlockReads ==
    \A k \in 1..Len(r_raw.dirs) : \A j \in 1..Len(r_raw.dirs[k].files) :
        FileBlockOf(w_sink, r_raw.dirs[k].files[j].block_offset, r_raw.embed_file_names,
                    r_raw.dirs[k].files[j]).k = "ok"

(***************************************************************************)
(* C6.  When every file-block read succeeds, _extract2 returns only after  *)
(* every job it has handed to the pool has finished, it returns an error   *)
(* iff a job has failed, and the error it returns is the first one on the  *)
(* error channel.                                                          *)
(***************************************************************************)
C6_Extract2JoinsThenReports ==
    (e_strategy = 2 /\ e_pc = "done" /\ EveryBlockReads) =>
        /\ e_result.pending = 0
        /\ (e_result.k = "err") = e_result.failed
        /\ e_result.k = "err" =>
              e_result.channel # <<>> /\ e_result.e = Head(e_result.channel)

\* The files _extract1 leaves in the output directory as it was when
\* extractN was called, if it succeeds.
Extract1Files ==
    Only({IF run.k = "ok" THEN Some(run.fs.files) ELSE None :
            run \in {Extract1From(r_raw, w_sink, e_bad, 1, e_hist.out, 0, FALSE)}})

(***************************************************************************)
(* C7.  When _extract4 succeeds on an archive on which _extract1 succeeds  *)
(* too, it leaves the files _extract1 leaves: the same paths with the same *)
(* contents, whatever the order in which its threads have run.             *)
(***************************************************************************)
C7_Extract4AsExtract1 ==
    (e_strategy = 4 /\ e_pc = "done" /\ e_result.k = "ok" /\ IsSome(Extract1Files)) =>
        e_result.fs.files = Unwrap(Extract1Files)

(***************************************************************************)
(* C8.  In _extract2 and _extract3, once an error has occurred in the      *)
(* driver or in a job, the driver hands no further job to a pool, and the  *)
(* jobs in flight run to their end: none panics.                           *)
(***************************************************************************)
C8_NoJobAfterFirstError ==
    e_strategy \in {2, 3} => ~e_hist.late /\ e_hist.panics = 0

\* What extract_to and extract read of the file `file` of the folder
\* `folder` on a handle that has extracted nothing yet: the data, or the
\* error of file_block or of the decoder.
FreshExtract(folder, file) ==
    Only({IF fb.k = "ok" THEN SaveFileTo(fb, f.compression) ELSE fb :
            f \in {r_raw.dirs[folder + 1].files[file + 1]},
            fb \in {FileBlockOf(w_sink, r_raw.dirs[folder + 1].files[file + 1].block_offset,
                                r_raw.embed_file_names,
                                r_raw.dirs[folder + 1].files[file + 1])}})

(***************************************************************************)
(* C9.  A failed extraction (by extract_to, extract or the strategies 1 to *)
(* 3) does not poison the handle: the directories are those that           *)
(* RawArchive::new has read, the reader is not borrowed once the call has  *)
(* returned, and an extraction after the failure reads what it reads on a  *)
(* handle that has extracted nothing (extract may still fail to create its *)
(* file).                                                                  *)
(***************************************************************************)
C9_HandleNotPoisoned ==
    /\ e_pc \in {"idle", "done"} => ~x_borrowed
    /\ r_raw.k = "ok" => r_raw = RawArchiveNew(w_sink)
    /\ (r_entry.k = "opened" /\ r_entry.via \in {"extract_to", "extract"} /\ r_entry.after) =>
          \A fresh \in {FreshExtract(r_entry.folder, r_entry.file)} :
              \/ r_entry.res = fresh
              \/ r_entry.via = "extract" /\ fresh.k = "ok" /\ r_entry.res.k # "ok"

\* One of the strategies 1 to 3 has returned an error, and an extraction
\* after its return has read the data of a file.
C9_Witness ==
    /\ e_strategy \in {1, 2, 3}
    /\ e_result.k = "err"
    /\ r_entry.k = "opened"
    /\ r_entry.via \in {"extract_to", "extract"}
    /\ r_entry.after
    /\ r_entry.pc = "done"
    /\ r_entry.res.k = "ok"
    /\ r_entry.res.data # <<>>

(***************************************************************************)
(* The TES3 name hash of versions/v0/raw/tes3.rs, on the bytes of a name.  *)
(***************************************************************************)
\* norm_byte of compute_hash (versions/v0)
V0NormByte(byte) == IF byte = 47 THEN 92 ELSE u8_to_ascii_lowercase(byte)

\* The loop of compute_hash (versions/v0) over the second half.
RECURSIVE V0HighFrom(_, _, _)
V0HighFrom(second, i, high) ==
    IF i > Len(second) THEN high
    ELSE V0HighFrom(second, i + 1,
            RotateRight32(
                [high EXCEPT ![((i - 1) % 4) + 1] = Xor8(@, V0NormByte(second[i]))],
                IF (i - 1) % 4 = 0 THEN V0NormByte(second[i]) % 32 ELSE 0))

\* compute_hash (versions/v0)
V0ComputeHash(bytes) ==
    Only({[low |-> [m \in 1..4 |->
                      XorAll([j \in 1..((Len(first) - m + 4) \div 4) |->
                                  V0NormByte(first[4 * (j - 1) + m])])],
           high |-> V0HighFrom(second, 1, <<0, 0, 0, 0>>)] :
             first \in {SubSeq(bytes, 1, Len(bytes) \div 2)},
             second \in {SubSeq(bytes, Len(bytes) \div 2 + 1, Len(bytes))}})

\* Hash::from_bytes
FromBytes(bytes) == IF ~IsAscii(bytes) THEN None ELSE Some(V0ComputeHash(bytes))

(***************************************************************************)
(* The TES3 hash specification: one of the two name hash functions is      *)
(* called on a name, and then once more on a name that differs from it in  *)
(* the case of a letter or in the kind of a separator.                     *)
(***************************************************************************)
\* a, B, both separators, NUL and é.
Tes3HashAlphabet == {97, 66, 47, 92, 0, 233}

\* Meshes/A\b.NIF, textures\Tx_Wood.dds, a name with a NUL and one with é.
Tes3LongNames ==
    {<<77, 101, 115, 104, 101, 115, 47, 65, 92, 98, 46, 78, 73, 70>>,
     <<116, 101, 120, 116, 117, 114, 101, 115, 92, 84, 120, 95, 87, 111, 111, 100, 46,
       100, 100, 115>>,
     <<77, 101, 115, 104, 0, 115, 47, 65, 92, 98, 0, 78, 73, 70>>,
     <<77, 101, 115, 104, 101, 115, 47, 233, 92, 98, 46, 78, 73, 70>>}

InitTes3Hash ==
    /\ IdleNotHash
    /\ overflow_checks = FALSE
    /\ h_in \in SeqUpTo(Tes3HashAlphabet, MaxNameLen) \cup Tes3LongNames
    /\ h_fn = "new"
    /\ h_out = [k |-> "new"]

\* The result of the hash function fn on name.
Tes3HashBy(fn, name) ==
    IF fn = "compute_hash" THEN ComputeHash(name) ELSE FromBytes(name)

CallComputeHash == CallHash("compute_hash", [k |-> "ret", r |-> ComputeHash(h_in)])
CallFromBytes ==
    IsBytes(h_in) /\ CallHash("Hash::from_bytes", [k |-> "ret", r |-> FromBytes(h_in)])

\* The names that differ from name in the case of one ASCII letter or in
\* the kind of one separator.
Tes3Variants(name) ==
    {[name EXCEPT ![i] = IF @ = 92 THEN 47 ELSE 92] :
        i \in {i \in 1..Len(name) : name[i] \in {47, 92}}}
    \cup {[name EXCEPT ![i] = IF @ < 97 THEN @ + 32 ELSE @ - 32] :
            i \in {i \in 1..Len(name) : name[i] \in (65..90) \cup (97..122)}}

\* A second call of the same function, on a variant v of the name.
CallTes3HashAgain(v) ==
    /\ h_fn \in {"compute_hash", "Hash::from_bytes"}
    /\ h_out.k = "ret"
    /\ v \in Tes3Variants(h_in)
    /\ h_out' = [k |-> "again", of |-> h_out.r, v |-> v, out |-> Tes3HashBy(h_fn, v)]
    /\ UNCHANGED <<overflow_checks, h_in, h_fn, othersHash>>

NextTes3Hash ==
    \/ CallComputeHash
    \/ CallFromBytes
    \/ \E v \in Tes3Variants(h_in) : CallTes3HashAgain(v)

SpecTes3Hash == InitTes3Hash /\ [][NextTes3Hash]_vars

\* The reference value of the claim, from the bits of the bytes.  The low
\* half: the bytes of the first half XORed into a 4-byte accumulator.
RECURSIVE RefLowFrom(_, _, _)
RefLowFrom(first, i, acc) ==
    IF i > Len(first) THEN acc
    ELSE RefLowFrom(first, i + 1, [acc EXCEPT ![((i - 1) % 4) + 1] = Xor8(@, first[i])])

\* The high half: acc as its 32 bits, t = byte << (8 * (i mod 4)),
\* acc = rotate_right(acc XOR t, t & 0x1F).
\* One step of the high half on the 32 bits of acc, for the i-th byte.
RefHighStep(byte, i, acc) ==
    LET sh == 8 * ((i - 1) % 4)
        t == [k \in 0..31 |->
                IF k \in sh..(sh + 7) THEN (byte \div 2 ^ (k - sh)) % 2 ELSE 0]
        n == t[0] + 2 * t[1] + 4 * t[2] + 8 * t[3] + 16 * t[4]
    IN <<>> \o [k \in 1..32 |-> (acc[((k - 1 + n) % 32) + 1] + t[(k - 1 + n) % 32]) % 2]

RECURSIVE RefHighFrom(_, _, _)
RefHighFrom(second, i, acc) ==
    IF i > Len(second) THEN acc
    ELSE Only({RefHighFrom(second, i + 1, x) : x \in {RefHighStep(second[i], i, acc)}})

\* The two halves of the hash of the normalised bytes norm.
ReferenceHalves(norm) ==
    Only({[low |-> RefLowFrom(SubSeq(norm, 1, Len(norm) \div 2), 1, <<0, 0, 0, 0>>),
           high |-> [m \in 1..4 |->
                       SumSeq([k \in 1..8 |-> (2 ^ (k - 1)) * bits[8 * (m - 1) + k]])]] :
            bits \in {RefHighFrom(SubSeq(norm, (Len(norm) \div 2) + 1, Len(norm)), 1,
                                  [k \in 1..32 |-> 0])}})

ReferenceTes3Hash(name) ==
    Only({ReferenceHalves(norm) :
            norm \in {[i \in 1..Len(name) |->
                          IF name[i] = 47 THEN 92
                          ELSE IF name[i] \in 65..90 THEN name[i] + 32 ELSE name[i]]}})

(***************************************************************************)
(* C14.  A TES3 name hash function returns the reference value of the      *)
(* claim for a name of ASCII bytes without a NUL, returns none for every   *)
(* name with a non-ASCII byte or a NUL byte, and gives two names that      *)
(* differ only in ASCII case or in separator kind the same result.         *)
(***************************************************************************)
C14_Tes3NameHash ==
    /\ (h_fn \in {"compute_hash", "Hash::from_bytes"} /\ h_out.k = "ret") =>
          h_out.r = IF \E i \in 1..Len(h_in) : h_in[i] = 0 \/ h_in[i] >= 128 THEN None
                  ELSE Some(ReferenceTes3Hash(h_in))
    /\ h_out.k = "again" => h_out.out = h_out.of

\* What does hold: compute_hash of tes3/mod.rs is the hash of the claim.
ComputeHashIsReference ==
    /\ (h_fn = "compute_hash" /\ h_out.k = "ret") =>
          h_out.r = IF \E i \in 1..Len(h_in) : h_in[i] = 0 \/ h_in[i] >= 128 THEN None
                  ELSE Some(ReferenceTes3Hash(h_in))
    /\ (h_fn = "compute_hash" /\ h_out.k = "again") => h_out.out = h_out.of

\* Hash::from_bytes has hashed a name with a NUL byte.
FromBytesHashedNul ==
    /\ h_fn = "Hash::from_bytes"
    /\ \E i \in 1..Len(h_in) : h_in[i] = 0
    /\ h_out.k = "ret"
    /\ IsSome(h_out.r)

(***************************************************************************)
(* FO4 BA2 (crates/fo4-ba2 and backup/gen0/read/fo4).  An archive is its   *)
(* bytes; the readers are functions of the bytes.  Every result carries    *)
(* `read`, the raw chunk-data records the reader has read, in order.       *)
(***************************************************************************)
BA2_MAGIC == <<66, 84, 68, 88>>
FormatGNRL == <<71, 78, 82, 76>>
FormatDX10 == <<68, 88, 49, 48>>
\* 0xBAADF00D as its little-endian bytes
CHUNK_DATA_SENTINEL == <<13, 240, 173, 186>>
SizeOfBa2RawHeader == 24
GENERAL_CHUNK_SIZE == 16
DX10_CHUNK_SIZE == 24
SizeOfRawGeneralChunkData == 20
SizeOfRawDirectXChunkData == 24

SizeOfChunkHeader(format) == IF format = "General" THEN 16 ELSE 24
SizeOfChunkData(format) ==
    IF format = "General" THEN SizeOfRawGeneralChunkData ELSE SizeOfRawDirectXChunkData

\* read_exact of n bytes at pos: the bytes, or None at the end of the file.
ReadExact(bytes, pos, n) ==
    IF pos + n <= Len(bytes) THEN Some(Slice(bytes, pos, pos + n)) ELSE None

\* u64::from_le_bytes of the 8 bytes at `at`; an offset of 2^31 or more is
\* beyond the end of every archive here, as is the value that stands for it.
FromLE64(bytes, at) ==
    IF bytes[at + 4] < 128 /\ \A i \in 5..8 : bytes[at + i] = 0
    THEN FromLE32(bytes, at)
    ELSE 1073741824 + 1073741823

\* Header::try_from(RawHeader)
Ba2HeaderTryFrom(header) ==
    IF Slice(header, 0, 4) # BA2_MAGIC THEN [k |-> "err", e |-> "InvalidMagic"]
    ELSE IF Slice(header, 4, 8) # <<1, 0, 0, 0>> THEN [k |-> "err", e |-> "InvalidVersion"]
    ELSE IF Slice(header, 8, 12) \notin {FormatGNRL, FormatDX10}
    THEN [k |-> "err", e |-> "UnsupportedFormat"]
    ELSE [k |-> "ok",
          format |-> IF Slice(header, 8, 12) = FormatGNRL THEN "General" ELSE "DirectX",
          file_count |-> FromLE32(header, 12),
          string_table_offset |->
              IF FromLE64(header, 16) = 0 THEN None ELSE Some(FromLE64(header, 16))]

\* GeneralChunkHeader::try_from and DirectXChunkHeader::try_from
ChunkHeaderTryFrom(format, header) ==
    IF FromLE16(header, 14)
         # (IF format = "General" THEN GENERAL_CHUNK_SIZE ELSE DX10_CHUNK_SIZE)
    THEN [k |-> "err", e |-> "InvalidChunkSize"]
    ELSE [k |-> "ok", chunk_count |-> header[14]]

\* The sentinel of a raw chunk-data record: its last four bytes.
SentinelOf(raw) == SubSeq(raw, Len(raw) - 3, Len(raw))

\* ChunkData::try_from without the test of the sentinel.
ChunkDataTryFromUnchecked(raw) ==
    [k |-> "ok",
     data_file_offset |-> FromLE64(raw, 0),
     compressed_size |-> IF FromLE32(raw, 8) = 0 THEN None ELSE Some(FromLE32(raw, 8)),
     decompressed_size |-> FromLE32(raw, 12)]

\* GeneralChunkData::try_from and DirectXChunkData::try_from
ChunkDataTryFrom(raw) ==
    IF SentinelOf(raw) # CHUNK_DATA_SENTINEL
    THEN [k |-> "err", e |-> "InvalidChunkSentinel"]
    ELSE [k |-> "ok",
          data_file_offset |-> FromLE64(raw, 0),
          compressed_size |-> IF FromLE32(raw, 8) = 0 THEN None ELSE Some(FromLE32(raw, 8)),
          decompressed_size |-> FromLE32(raw, 12)]

\* The records of n raw chunk-data records read in one read_exact.
RecordsOf(format, raw, n) ==
    [j \in 1..n |-> Slice(raw, SizeOfChunkData(format) * (j - 1), SizeOfChunkData(format) * j)]

\* read_general_chunk and read_directx_chunk at pos
ReadChunk(format, bytes, pos) ==
    IF ~IsSome(ReadExact(bytes, pos, SizeOfChunkHeader(format)))
    THEN [k |-> "err", e |-> "Io", read |-> <<>>]
    ELSE \* the header has been read
      Only({
        IF header.k = "err" THEN [k |-> "err", e |-> header.e, read |-> <<>>]
        ELSE Only({
          IF ~IsSome(raw_data) THEN [k |-> "err", e |-> "Io", read |-> <<>>]
          ELSE Only({
            IF \E j \in 1..Len(recs) : ChunkDataTryFrom(recs[j]).k = "err"
            THEN [k |-> "err", e |-> "InvalidChunkSentinel", read |-> recs]
            ELSE [k |-> "ok", read |-> recs,
                  pos |-> pos + SizeOfChunkHeader(format) + Len(Unwrap(raw_data)),
                  chunk |-> [header |-> header,
                             data |-> [j \in 1..Len(recs) |-> ChunkDataTryFrom(recs[j])]]] :
            recs \in {RecordsOf(format, Unwrap(raw_data), header.chunk_count)}}) :
          raw_data \in {ReadExact(bytes, pos + SizeOfChunkHeader(format),
                                  header.chunk_count * SizeOfChunkData(format))}}) :
        header \in {ChunkHeaderTryFrom(format,
                        Unwrap(ReadExact(bytes, pos, SizeOfChunkHeader(format))))}})

\* read_general_chunks and read_directx_chunks: the loop, n chunks to go.
RECURSIVE ReadChunks(_, _, _, _, _, _)
ReadChunks(format, bytes, pos, n, chunks, read) ==
    IF n = 0 THEN [k |-> "ok", pos |-> pos, chunks |-> chunks, read |-> read]
    ELSE Only({
        IF c.k = "err" THEN [k |-> "err", e |-> c.e, read |-> read \o c.read]
        ELSE ReadChunks(format, bytes, c.pos, n - 1, Append(chunks, c.chunk), read \o c.read) :
        c \in {ReadChunk(format, bytes, pos)}})

\* read_wstring at pos
ReadWstring(bytes, pos) ==
    IF ~IsSome(ReadExact(bytes, pos, 2)) THEN [k |-> "err", e |-> "Io"]
    ELSE IF ~IsSome(ReadExact(bytes, pos + 2, FromLE16(bytes, pos)))
    THEN [k |-> "err", e |-> "Io"]
    ELSE [k |-> "ok", pos |-> pos + 2 + FromLE16(bytes, pos),
          string |-> Decode1252(Unwrap(ReadExact(bytes, pos + 2, FromLE16(bytes, pos))))]

\* read_string_table: the loop, n strings to go from pos.
RECURSIVE ReadStringTable(_, _, _, _)
ReadStringTable(bytes, pos, n, strings) ==
    IF n = 0 THEN [k |-> "ok", strings |-> strings]
    ELSE Only({
        IF w.k = "err" THEN w
        ELSE ReadStringTable(bytes, w.pos, n - 1, Append(strings, w.string)) :
        w \in {ReadWstring(bytes, pos)}})

\* Ba2Inner::new, after the header has been converted
Ba2InnerNewFrom(bytes, header) ==
    Only({
      IF chunks.k = "err" THEN chunks
      ELSE IF ~IsSome(header.string_table_offset)
      \* strings is None, and strings.as_ref().unwrap() panics
      THEN [k |-> "panic", read |-> chunks.read]
      ELSE Only({
          IF strings.k = "err" THEN [k |-> "err", e |-> strings.e, read |-> chunks.read]
          ELSE [k |-> "ok", format |-> header.format, chunks |-> chunks.chunks,
                strings |-> Some(strings.strings), read |-> chunks.read] :
          strings \in {ReadStringTable(bytes, Unwrap(header.string_table_offset),
                                       header.file_count, <<>>)}}) :
      chunks \in {ReadChunks(header.format, bytes, SizeOfBa2RawHeader, header.file_count,
                             <<>>, <<>>)}})

\* Ba2Inner::new
Ba2InnerNew(bytes) ==
    IF ~IsSome(ReadExact(bytes, 0, SizeOfBa2RawHeader))
    THEN [k |-> "err", e |-> "Io", read |-> <<>>]
    ELSE Only({
        IF header.k = "err" THEN [k |-> "err", e |-> header.e, read |-> <<>>]
        ELSE Ba2InnerNewFrom(bytes, header) :
        header \in {Ba2HeaderTryFrom(Slice(bytes, 0, SizeOfBa2RawHeader))}})

\* Ba2::entries and Entries::next until it returns None: the name of every
\* entry that is yielded.
EntryNames(ba2) ==
    [i \in 1..Len(ba2.chunks) |->
        IF IsSome(ba2.strings) /\ i <= Len(Unwrap(ba2.strings))
        THEN Some(Unwrap(ba2.strings)[i])
        ELSE None]

\* read_chunks_n (gen0): the loop, n chunks to go.  The header is not
\* validated; every record of a chunk is read before its sentinel is tested.
RECURSIVE ReadChunksN(_, _, _, _, _, _)
ReadChunksN(format, bytes, pos, n, chunks, read) ==
    IF n = 0 THEN [k |-> "ok", chunks |-> chunks, read |-> read]
    ELSE IF ~IsSome(ReadExact(bytes, pos, SizeOfChunkHeader(format)))
    THEN [k |-> "err", e |-> "Io", read |-> read]
    ELSE Only({
        IF ~IsSome(data) THEN [k |-> "err", e |-> "Io", read |-> read]
        ELSE Only({
            IF \E j \in 1..Len(recs) : SentinelOf(recs[j]) # CHUNK_DATA_SENTINEL
            THEN [k |-> "err", e |-> "BadSentinel", read |-> read \o recs]
            ELSE ReadChunksN(format, bytes,
                             pos + SizeOfChunkHeader(format) + Len(Unwrap(data)), n - 1,
                             Append(chunks, recs), read \o recs) :
            recs \in {RecordsOf(format, Unwrap(data), bytes[pos + 14])}}) :
        data \in {ReadExact(bytes, pos + SizeOfChunkHeader(format),
                            bytes[pos + 14] * SizeOfChunkData(format))}})

\* read_string_table (gen0)
Gen0ReadStringTable(bytes, header) ==
    IF ~IsSome(header.string_table_offset) THEN [k |-> "ok", strings |-> None]
    ELSE Only({IF t.k = "err" THEN t ELSE [k |-> "ok", strings |-> Some(t.strings)] :
                t \in {ReadStringTable(bytes, Unwrap(header.string_table_offset),
                                       header.file_count, <<>>)}})

\* Archive::new (gen0), after the header has been converted
Fo4ArchiveNewFrom(bytes, header) ==
    Only({
      IF chunks.k = "err" THEN chunks
      ELSE Only({
          IF strings.k = "err" THEN [k |-> "err", e |-> strings.e, read |-> chunks.read]
          \* data.into_iter().next().unwrap() on a chunk without records
          ELSE IF /\ header.format = "General"
                  /\ \E i \in 1..Len(chunks.chunks) : chunks.chunks[i] = <<>>
          THEN [k |-> "panic", read |-> chunks.read]
          ELSE [k |-> "ok", header |-> header, read |-> chunks.read] :
          strings \in {Gen0ReadStringTable(bytes, header)}}) :
      chunks \in {ReadChunksN(header.format, bytes, SizeOfBa2RawHeader, header.file_count,
                              <<>>, <<>>)}})

\* Archive::new (gen0)
Fo4ArchiveNew(bytes) ==
    IF ~IsSome(ReadExact(bytes, 0, SizeOfBa2RawHeader))
    THEN [k |-> "err", e |-> "Io", read |-> <<>>]
    ELSE Only({
        IF header.k = "err" THEN [k |-> "err", e |-> header.e, read |-> <<>>]
        ELSE Fo4ArchiveNewFrom(bytes, header) :
        header \in {Ba2HeaderTryFrom(Slice(bytes, 0, SizeOfBa2RawHeader))}})

(***************************************************************************)
(* The FO4 specification: an archive of a few files and chunks, with good  *)
(* and bad sentinels, with or without a string table, whole or damaged,    *)
(* is opened by one of the two readers and its entries are listed.         *)
(***************************************************************************)
MaxFo4Files == 2
MaxChunks == 2

\* A sentinel that is not 0xBAADF00D.
BadSentinel == <<13, 240, 173, 187>>

\* The name of the i-th file in the string table, as Windows-1252 bytes.
Fo4Name(i) == <<96 + i, 128>>

\* The j-th chunk-data record of a file, with the given sentinel.
MakeChunkData(fmt, j, sentinel) ==
    LE32(200 + j) \o <<0, 0, 0, 0>> \o LE32(j - 1) \o LE32(j)
    \o (IF fmt = FormatDX10 THEN <<0, 0, 1, 0>> ELSE <<>>) \o sentinel

\* The chunk header and the chunk-data records of the i-th file.
MakeChunk(fmt, i, sentinels, chunk_size) ==
    <<i, 0, 0, 0, 0, 0, 0, 0, 0, 0, 0, 0, 0, Len(sentinels)>> \o LE16(chunk_size)
    \o (IF fmt = FormatDX10 THEN <<4, 0, 4, 0, 1, 71, 0, 8>> ELSE <<>>)
    \o Flatten([j \in 1..Len(sentinels) |-> MakeChunkData(fmt, j, sentinels[j])])

\* The archive of the files `files` (the sentinels of the records of each),
\* with the string table strs ("absent", "present", or "far": an offset
\* beyond the end) and the damage dmg.
MakeArchive(fmt, files, strs, dmg) ==
    Only({
        Only({IF dmg = "cut" THEN SubSeq(whole, 1, Len(whole) - 1) ELSE whole :
              whole \in {
                (IF dmg = "magic" THEN <<66, 83, 65, 0>> ELSE BA2_MAGIC)
                \o <<1, 0, 0, 0>> \o fmt \o LE32(Len(files))
                \o LE32(IF strs = "absent" THEN 0
                        ELSE IF strs = "far" THEN 9999
                        ELSE SizeOfBa2RawHeader + Len(block))
                \o <<0, 0, 0, 0>>
                \o block
                \o (IF strs = "present"
                    THEN Flatten([i \in 1..Len(files) |-> LE16(2) \o Fo4Name(i)])
                    ELSE <<>>)}}) :
        block \in {Flatten([i \in 1..Len(files) |->
                      MakeChunk(fmt, i, files[i],
                                IF dmg = "chunk size" /\ i = 1 THEN 17
                                ELSE IF fmt = FormatDX10 THEN DX10_CHUNK_SIZE
                                ELSE GENERAL_CHUNK_SIZE)])}})

Fo4Archives ==
    {MakeArchive(fmt, files, strs, dmg) :
        fmt \in {FormatGNRL, FormatDX10},
        files \in SeqUpTo(SeqUpTo({CHUNK_DATA_SENTINEL, BadSentinel}, MaxChunks), MaxFo4Files),
        strs \in {"absent", "present", "far"},
        dmg \in {"none", "cut", "chunk size", "magic"}}

InitFo4 ==
    /\ IdleNotFo4
    /\ f_bytes \in Fo4Archives
    /\ f_reader = "new"
    /\ f_open = [k |-> "none"]
    /\ f_names = [k |-> "none"]

\* Ba2::new(f_bytes)
Ba2New ==
    /\ f_reader = "new"
    /\ f_reader' = "fo4-ba2"
    /\ f_open' = Ba2InnerNew(f_bytes)
    /\ UNCHANGED <<f_bytes, f_names, othersFo4>>

\* Archive::new(f_bytes) of gen0
Gen0ArchiveNew ==
    /\ f_reader = "new"
    /\ f_reader' = "gen0"
    /\ f_open' = Fo4ArchiveNew(f_bytes)
    /\ UNCHANGED <<f_bytes, f_names, othersFo4>>

\* ba2.entries().map(|e| e.name()).collect()
Ba2Entries ==
    /\ f_reader = "fo4-ba2"
    /\ f_open.k = "ok"
    /\ f_names.k = "none"
    /\ f_names' = [k |-> "listed", names |-> EntryNames(f_open)]
    /\ UNCHANGED <<f_bytes, f_reader, f_open, othersFo4>>

NextFo4 ==
    \/ Ba2New
    \/ Gen0ArchiveNew
    \/ Ba2Entries

SpecFo4 == InitFo4 /\ [][NextFo4]_vars

\* A chunk-data record that opening has read has a sentinel that is not
\* 0xBAADF00D.
ReadBadSentinel ==
    \E i \in 1..Len(f_open.read) : SentinelOf(f_open.read[i]) # CHUNK_DATA_SENTINEL

(***************************************************************************)
(* C15.  Opening a FO4 archive (GNRL or DX10) fails with the bad-sentinel  *)
(* error whenever a chunk-data record read during opening has a sentinel   *)
(* that is not 0xBAADF00D; so every chunk of an archive that was opened    *)
(* has the sentinel 0xBAADF00D.                                            *)
(***************************************************************************)
C15_BadSentinelFailsOpen ==
    f_reader \in {"fo4-ba2", "gen0"} =>
        /\ ReadBadSentinel =>
              f_open.k = "err" /\ f_open.e \in {"InvalidChunkSentinel", "BadSentinel"}
        /\ f_open.k = "ok" => ~ReadBadSentinel
        /\ (f_open.k = "ok" /\ f_reader = "fo4-ba2") =>
              /\ Len(f_open.chunks) = FromLE32(f_bytes, 12)
              /\ Len(f_open.read)
                   = SumSeq([i \in 1..Len(f_open.chunks) |-> Len(f_open.chunks[i].data)])
              /\ \A i \in 1..Len(f_open.chunks) :
                    \A j \in 1..Len(f_open.chunks[i].data) :
                        f_open.chunks[i].data[j].k = "ok"

\* A reader has read two records or more of a DX10 archive, the first with
\* the sentinel and a later one without.
C15_Witness ==
    /\ f_reader \in {"fo4-ba2", "gen0"}
    /\ ReadBadSentinel
    /\ Len(f_open.read) >= 2
    /\ SentinelOf(f_open.read[1]) = CHUNK_DATA_SENTINEL
    /\ Slice(f_bytes, 8, 12) = FormatDX10

\* The header of the archive that was opened, when there are 24 bytes of it.
OpenedHeader == Ba2HeaderTryFrom(Slice(f_bytes, 0, SizeOfBa2RawHeader))

\* The archive is well formed up to its string table: its header converts
\* and every chunk of it can be read.
ChunksWellFormed ==
    /\ Len(f_bytes) >= SizeOfBa2RawHeader
    /\ OpenedHeader.k = "ok"
    /\ ReadChunks(OpenedHeader.format, f_bytes, SizeOfBa2RawHeader, OpenedHeader.file_count,
                  <<>>, <<>>).k = "ok"

\* The wstrings of the archive from the offset of its header, file_count of
\* them: the length as a little-endian u16 and then the bytes, decoded.
RECURSIVE WstringsFrom(_, _)
WstringsFrom(pos, n) ==
    IF n = 0 THEN <<>>
    ELSE <<Decode1252(SubSeq(f_bytes, pos + 3, pos + 2 + f_bytes[pos + 1] + 256 * f_bytes[pos + 2]))>>
         \o WstringsFrom(pos + 2 + f_bytes[pos + 1] + 256 * f_bytes[pos + 2], n - 1)

(***************************************************************************)
(* C16.  Ba2::new of an archive whose string-table offset is 0 succeeds    *)
(* with the string table absent, and every entry then has no name; with an *)
(* offset that is not 0, file_count wstrings are read from the offset and  *)
(* the i-th string is the name of the i-th entry.                          *)
(***************************************************************************)
C16_StringTable ==
    (f_reader = "fo4-ba2" /\ ChunksWellFormed) =>
        /\ ~IsSome(OpenedHeader.string_table_offset) =>
              /\ f_open.k = "ok"
              /\ f_open.strings = None
              /\ f_names.k = "listed" =>
                    \A i \in 1..Len(f_names.names) : f_names.names[i] = None
        /\ (IsSome(OpenedHeader.string_table_offset) /\ f_open.k = "ok") =>
              /\ Len(Unwrap(f_open.strings)) = OpenedHeader.file_count
              /\ Unwrap(f_open.strings)
                   = WstringsFrom(Unwrap(OpenedHeader.string_table_offset),
                                  OpenedHeader.file_count)
              /\ f_names.k = "listed" =>
                    /\ Len(f_names.names) = OpenedHeader.file_count
                    /\ \A i \in 1..Len(f_names.names) :
                          f_names.names[i] = Some(Unwrap(f_open.strings)[i])

\* What does hold: with an offset that is not 0 the names are the strings
\* of the table, and with the offset 0 Ba2::new panics.
StringTableWhenPresent ==
    (f_reader = "fo4-ba2" /\ ChunksWellFormed) =>
        /\ ~IsSome(OpenedHeader.string_table_offset) => f_open.k = "panic"
        /\ (IsSome(OpenedHeader.string_table_offset) /\ f_open.k = "ok") =>
              /\ Unwrap(f_open.strings)
                   = WstringsFrom(Unwrap(OpenedHeader.string_table_offset),
                                  OpenedHeader.file_count)
              /\ f_names.k = "listed" =>
                    /\ Len(f_names.names) = OpenedHeader.file_count
                    /\ \A i \in 1..Len(f_names.names) :
                          f_names.names[i] = Some(Unwrap(f_open.strings)[i])

(***************************************************************************)
(* The open specification: archives of the TES4 layout with and without    *)
(* directory names and file names, as INCLUDE_DIRNAMES and                 *)
(* INCLUDE_FILENAMES of their header say, are opened with BsaArchive and   *)
(* with RawArchive.                                                        *)
(***************************************************************************)
\* The folder block of directory d: its name as a bzstring if dn, and its
\* file records, the data of the files from offset data_at on.
LayoutBlock(d, dn, data_at) ==
    (IF dn THEN <<Len(d.name)>> \o d.name ELSE <<>>)
    \o Flatten([j \in 1..Len(d.files) |->
          FileRecordBytes(d.files[j].hash, Len(d.files[j].data),
              data_at + SumSeq([x \in 1..(j - 1) |-> Len(d.files[x].data)]), FALSE)])

\* The length of the folder block of d.
LayoutBlockLen(d, dn) == (IF dn THEN 1 + Len(d.name) ELSE 0) + SizeOfFileRecord * Len(d.files)

\* The number of payload bytes of directory d.
LayoutDataLen(d) == SumSeq([j \in 1..Len(d.files) |-> Len(d.files[j].data)])

\* The archive of the sorted directories ds, with directory names if dn and
\* with the file-names block if fn; the totals of the header count the
\* names that are there.
LayoutArchive(fmt, ds, dn, fn) ==
    Only({
        <<66, 83, 65, 0>>
        \o LE32(fmt.version) \o LE32(SizeOfRawHeader)
        \o LE32((IF dn THEN INCLUDE_DIRNAMES ELSE 0) + (IF fn THEN INCLUDE_FILENAMES ELSE 0))
        \o LE32(Len(ds)) \o LE32(Len(es))
        \o LE32(IF dn THEN SumSeq([k \in 1..Len(ds) |-> Len(ds[k].name)]) ELSE 0)
        \o LE32(Len(names))
        \o <<0, 0, 0, 0>>
        \o Flatten([k \in 1..Len(ds) |->
              FolderRecordBytes(fmt, ds[k].hash, Len(ds[k].files),
                  records_at + Len(names)
                  + SumSeq([x \in 1..(k - 1) |-> LayoutBlockLen(ds[x], dn)]))])
        \o Flatten([k \in 1..Len(ds) |->
              LayoutBlock(ds[k], dn,
                  records_at + SumSeq([x \in 1..Len(ds) |-> LayoutBlockLen(ds[x], dn)])
                  + Len(names) + SumSeq([x \in 1..(k - 1) |-> LayoutDataLen(ds[x])]))])
        \o names
        \o Flatten([i \in 1..Len(es) |-> es[i].file.data]) :
        es \in {FilesInOrder(ds)},
        records_at \in {SizeOfRawHeader + Len(ds) * fmt.folder_record},
        names \in {IF fn
                   THEN Flatten([i \in 1..Len(FilesInOrder(ds)) |->
                                    FilesInOrder(ds)[i].file.name])
                   ELSE <<>>}})

FlagArchives(fmt) ==
    {LayoutArchive(fmt, SortedDirs(AddAll(NewWriter, n)), dn, fn) :
        n \in 0..Min(MaxReadFiles, Len(ReadFiles)), dn \in BOOLEAN, fn \in BOOLEAN}

InitOpen ==
    /\ IdleNotRead
    /\ w_fmt \in Formats
    /\ w_writer = "layout"
    /\ w_pc = "written"
    /\ w_sink \in FlagArchives(w_fmt)
    /\ r_archive = [k |-> "none"]
    /\ r_entry = [k |-> "none"]
    /\ r_raw = [k |-> "none"]
    /\ x_pos = 0
    /\ x_borrowed = FALSE
    /\ x_failed = FALSE

NextOpen ==
    \/ ArchiveNew
    \/ RawNew

SpecOpen == InitOpen /\ [][NextOpen]_vars

\* The flags of the header of the archive, and its folder and file counts.
SinkHasFlag(flag) == HasFlag(FromLE32(w_sink, 12), flag)
SinkFolders == FromLE32(w_sink, 16)
SinkFiles == FromLE32(w_sink, 20)

\* The offset of the first folder block of the archive.
SinkBlocksAt == SizeOfRawHeader + SinkFolders * w_fmt.folder_record

\* BsaArchive::new has opened the archive with the names its flags say, and
\* has consumed for the folder blocks the file records and, only if
\* INCLUDE_DIRNAMES is set, a length byte and the name with its NUL for
\* every folder.
BsaArchiveHonoursFlags ==
    r_archive.k # "none" =>
        /\ r_archive.k = "ok"
        /\ Len(r_archive.dirs) = SinkFolders
        /\ \A k \in 1..Len(r_archive.dirs) :
              /\ IsSome(r_archive.dirs[k].name) = SinkHasFlag(INCLUDE_DIRNAMES)
              /\ \A j \in 1..Len(r_archive.dirs[k].files) :
                    IsSome(r_archive.dirs[k].files[j].name) = SinkHasFlag(INCLUDE_FILENAMES)
        /\ \E header \in {HeaderTryFrom(w_fmt, w_sink)} :
              FolderLoop(w_fmt, header, w_sink, 1, SinkBlocksAt, SinkBlocksAt, <<>>).pos
                  - SinkBlocksAt
                = SizeOfFileRecord * SinkFiles
                  + (IF SinkHasFlag(INCLUDE_DIRNAMES)
                     THEN SinkFolders + FromLE32(w_sink, 24) ELSE 0)

\* RawArchive::new has opened the archive, with no directory name where
\* INCLUDE_DIRNAMES is clear and no file name where INCLUDE_FILENAMES is.
RawArchiveHonoursFlags ==
    r_raw.k # "none" =>
        /\ r_raw.k = "ok"
        /\ Len(r_raw.dirs) = SinkFolders
        /\ \A k \in 1..Len(r_raw.dirs) :
              /\ (r_raw.dirs[k].name # <<>>) = SinkHasFlag(INCLUDE_DIRNAMES)
              /\ \A j \in 1..Len(r_raw.dirs[k].files) :
                    IsSome(r_raw.dirs[k].files[j].name) = SinkHasFlag(INCLUDE_FILENAMES)

(***************************************************************************)
(* C17.  Opening a TES4-family archive reads a directory name from a       *)
(* folder block only if INCLUDE_DIRNAMES is set and the file-names block   *)
(* only if INCLUDE_FILENAMES is set: a well-formed archive with a flag     *)
(* clear is opened, without the names of that kind, and the bytes consumed *)
(* for the folder blocks are those the flags say.                          *)
(***************************************************************************)
C17_NamesReadAsFlagsSay == BsaArchiveHonoursFlags /\ RawArchiveHonoursFlags

\* What does hold: RawArchive::new opens the archives that have both kinds
\* of names.
RawArchiveOpensWithBothFlags ==
    (r_raw.k # "none" /\ SinkHasFlag(INCLUDE_DIRNAMES) /\ SinkHasFlag(INCLUDE_FILENAMES))
        => r_raw.k = "ok"

(***************************************************************************)
(* The data region of a TES3 archive.                                      *)
(***************************************************************************)
\* ArchiveMeta::new_inner (versions/v0): data_offset, for counts that do
\* not overflow a u32.
V0DataOffset(bsa) == bsa.file_count * SizeOfNameHash + bsa.hash_table_offset

\* ArchiveMeta::file (versions/v0): File::offset, where Entry::data makes
\* read_at seek from the start of the source.
V0FileOffset(bsa, index) == bsa.records[index + 1].offset + V0DataOffset(bsa)

\* The start of the data region as the claim has it.
DataRegionStart(bsa) == SizeOfTes3Header + bsa.hash_table_offset + bsa.file_count * SizeOfRecord

\* The index of the entry that open_by_name has opened.
OpenedIndex == Unwrap(FindByName(t_bsa, t_entry.path))

(***************************************************************************)
(* C18.  The data region of a TES3 archive starts at the absolute offset   *)
(* 12 + hash_table_offset + file_count * 8, and the reader reads the       *)
(* payload of a file from that start plus the offset of its record.        *)
(***************************************************************************)
C18_DataRegionStart ==
    (t_entry.k = "opened" /\ t_entry.res.k = "ok") =>
        /\ DataOffset(t_bsa) = DataRegionStart(t_bsa)
        /\ OpenByName(t_bsa, t_entry.path).start
             = DataRegionStart(t_bsa) + t_bsa.records[OpenedIndex + 1].offset
        /\ V0FileOffset(t_bsa, OpenedIndex)
             = DataRegionStart(t_bsa) + t_bsa.records[OpenedIndex + 1].offset

\* What does hold: both readers read the payload from 12 bytes before the
\* position of the claim.
PayloadReadTwelveBytesEarly ==
    (t_entry.k = "opened" /\ t_entry.res.k = "ok") =>
        /\ OpenByName(t_bsa, t_entry.path).start + SizeOfTes3Header
             = DataRegionStart(t_bsa) + t_bsa.records[OpenedIndex + 1].offset
        /\ V0FileOffset(t_bsa, OpenedIndex) + SizeOfTes3Header
             = DataRegionStart(t_bsa) + t_bsa.records[OpenedIndex + 1].offset

(***************************************************************************)
(* The records of the archive that write_to has emitted, read from the     *)
(* bytes of the sink by the layout of the format.                          *)
(***************************************************************************)
\* The 8 bytes of the hash of the k-th folder record, and its file count.
EmittedFolderHash(k) ==
    Slice(w_sink, SizeOfRawHeader + (k - 1) * w_fmt.folder_record,
          SizeOfRawHeader + (k - 1) * w_fmt.folder_record + 8)
EmittedFolderCount(k) == FromLE32(w_sink, SizeOfRawHeader + (k - 1) * w_fmt.folder_record + 8)

\* The offset of the first file record of the k-th folder block: after the
\* blocks before it, and after the length byte and the name of its own.
RECURSIVE EmittedRecordsAt(_)
EmittedRecordsAt(k) ==
    Only({at + 1 + w_sink[at + 1] :
            at \in {IF k = 1 THEN SizeOfRawHeader + FromLE32(w_sink, 16) * w_fmt.folder_record
                    ELSE EmittedRecordsAt(k - 1)
                         + SizeOfFileRecord * EmittedFolderCount(k - 1)}})

\* The 8 bytes of the hash of the j-th file record of the k-th folder block.
EmittedFileHash(k, j) ==
    Slice(w_sink, EmittedRecordsAt(k) + SizeOfFileRecord * (j - 1),
          EmittedRecordsAt(k) + SizeOfFileRecord * (j - 1) + 8)

\* a < b for the u64 that 8 bytes are in little-endian order.
U64Less(a, b) == \E i \in 1..8 : a[i] < b[i] /\ \A j \in (i + 1)..8 : a[j] = b[j]

(***************************************************************************)
(* C19.  In the archive the TES4-family writer emits, the folder records   *)
(* are in strictly ascending order of the directory hash, and the file     *)
(* records of every folder block in strictly ascending order of the file   *)
(* hash, the hash compared as its little-endian u64, in whatever order the *)
(* entries were added.                                                     *)
(***************************************************************************)
C19_RecordsInHashOrder ==
    w_pc = "written" =>
        /\ FromLE32(w_sink, 16) = Cardinality(w_writer.dirs)
        /\ \A k \in 1..(FromLE32(w_sink, 16) - 1) :
              U64Less(EmittedFolderHash(k), EmittedFolderHash(k + 1))
        /\ \A k \in 1..FromLE32(w_sink, 16) :
              \A j \in 1..(EmittedFolderCount(k) - 1) :
                  U64Less(EmittedFileHash(k, j), EmittedFileHash(k, j + 1))

\* An archive of two folders, one of them with two files, has been emitted.
C19_Witness ==
    /\ w_pc = "written"
    /\ FromLE32(w_sink, 16) = 2
    /\ \E k \in 1..2 : EmittedFolderCount(k) = 2

(***************************************************************************)
(* The running totals of the two writers.  A u32 or usize value that may   *)
(* reach 2^32 is the pair <<hi, lo>> of value hi * 65536 + lo with         *)
(* lo < 65536.                                                             *)
(***************************************************************************)
WideAdd(a, b) ==
    <<a[1] + b[1] + ((a[2] + b[2]) \div 65536), (a[2] + b[2]) % 65536>>

\* usize -> u32 try_into succeeds
FitsU32(a) == a[1] < 65536

\* u32::checked_add
CheckedAddU32(a, b) == IF FitsU32(WideAdd(a, b)) THEN Some(WideAdd(a, b)) ELSE None

\* A path that is `count` copies of one ASCII letter: paths of 2^31 bytes
\* and more are written this way.  The name add_inner stores for it is the
\* same run followed by a NUL.
RunPath(byte, count) == [byte |-> byte, count |-> count]
RunNameLen(path) == WideAdd(path.count, <<0, 1>>)

\* Tes3Writer::add_inner on a run path, whose hash compute_hash always
\* finds: the insert into entries comes first, the two fallible steps on
\* file_names_len after it.
AddInnerRun(w, path, data) ==
    LET inserted == {e \in w.entries : e.name # path}
                    \cup {[name |-> path, data |-> data]}
        name_len == RunNameLen(path)
    IN IF \E e \in w.entries : e.name = path
       THEN [k |-> "ok", w |-> [w EXCEPT !.entries = inserted]]
       ELSE IF ~FitsU32(name_len)
       THEN [k |-> "err", w |-> [w EXCEPT !.entries = inserted]]
       ELSE IF ~IsSome(CheckedAddU32(w.file_names_len, name_len))
       THEN [k |-> "err", w |-> [w EXCEPT !.entries = inserted]]
       ELSE [k |-> "ok",
             w |-> [file_names_len |-> Unwrap(CheckedAddU32(w.file_names_len, name_len)),
                    entries |-> inserted]]

\* Paths of 1, 2^31 - 1, 2^32 - 2 and 2^32 - 1 bytes, all of the letter a.
RunCounts == {<<0, 1>>, <<32767, 65535>>, <<65535, 65534>>, <<65535, 65535>>}
RunPaths == {RunPath(97, c) : c \in RunCounts}
RunData == {<<>>, <<1>>}

InitAdd ==
    /\ IdleIter /\ IdleHash /\ IdleRaw /\ IdleExt /\ IdleFo4
    /\ w_fmt = Tes4
    /\ w_writer = NewWriter
    /\ w_pc = "building"
    /\ w_sink = <<>>
    /\ r_archive = [k |-> "none"]
    /\ r_entry = [k |-> "none"]
    /\ t_writer = [file_names_len |-> <<0, 0>>, entries |-> {}]
    /\ t_pc = "building"
    /\ t_sink = <<>>
    /\ t_bsa = [k |-> "none"]
    /\ t_names = [k |-> "none"]
    /\ t_entry = [k |-> "none"]

\* <Tes3Writer as ArchiveWrite>::add of a run path
Tes3AddRun(path, data) ==
    /\ t_pc = "building"
    /\ Cardinality(t_writer.entries) < MaxFiles
    /\ t_writer' = AddInnerRun(t_writer, path, data).w
    /\ UNCHANGED <<t_pc, t_sink, t_bsa, t_names, t_entry, othersTes3>>

NextAdd ==
    \/ \E path \in AddPaths, data \in AddData : Add(path, data)
    \/ \E path \in RunPaths, data \in RunData : Tes3AddRun(path, data)

SpecAdd == InitAdd /\ [][NextAdd]_vars

\* The sums the totals are compared with.
RECURSIVE SumNameLen(_)
SumNameLen(S) ==
    IF S = {} THEN 0
    ELSE LET x == CHOOSE y \in S : TRUE IN Len(x.name) + SumNameLen(S \ {x})
RECURSIVE SumFileNameLen(_)
SumFileNameLen(ds) ==
    IF ds = {} THEN 0
    ELSE LET d == CHOOSE y \in ds : TRUE
         IN SumNameLen(d.files) + SumFileNameLen(ds \ {d})
RECURSIVE SumRunNameLen(_)
SumRunNameLen(S) ==
    IF S = {} THEN <<0, 0>>
    ELSE LET x == CHOOSE y \in S : TRUE
         IN WideAdd(RunNameLen(x.name), SumRunNameLen(S \ {x}))
StoredPairs(w) == UNION {{<<d.hash, f.hash>> : f \in d.files} : d \in w.dirs}

\* The totals of the BsaWriter agree with its stored entries.
BsaWriterTotalsAgree ==
    /\ w_writer.file_count = Cardinality(StoredPairs(w_writer))
    /\ w_writer.total_file_name_len = SumFileNameLen(w_writer.dirs)
    /\ w_writer.total_dir_name_len = SumNameLen(w_writer.dirs)

\* The total of the Tes3Writer agrees with its stored names.
Tes3WriterTotalAgrees ==
    t_writer.file_names_len = SumRunNameLen(t_writer.entries)

(***************************************************************************)
(* C20.  After any sequence of add calls the running totals of a writer    *)
(* agree with its stored entries: the file count is the number of stored   *)
(* (dir_hash, file_hash) pairs, the total file-name length the sum of      *)
(* name length + 1 over the stored file names, the total directory-name    *)
(* length the same sum over the stored directories, also after an add that *)
(* replaces an entry.                                                      *)
(***************************************************************************)
C20_TotalsAgreeWithEntries == BsaWriterTotalsAgree /\ Tes3WriterTotalAgrees

\* What does hold: the totals of the BsaWriter agree after every add, and
\* the total of the Tes3Writer agrees as long as no add has failed on the
\* u32 limit, that is as long as it counts every stored name.
TotalsAgreeBelowLimit ==
    /\ BsaWriterTotalsAgree
    /\ FitsU32(SumRunNameLen(t_writer.entries)) => Tes3WriterTotalAgrees

(***************************************************************************)
(* The size word of a TES4 file record: FileRecord of tes4/mod.rs and      *)
(* FileSize of versions/v0.  A call builds the record from h_in and h_out  *)
(* holds what it returned.                                                 *)
(***************************************************************************)
\* FileRecord::new: the assert_eq on bit 30 of the size, then the record.
FileRecordNew(hash, size, offset, negate_compression) ==
    IF HasFlag(size, NEGATE_COMPRESSION) THEN [k |-> "panic"]
    ELSE [k |-> "record", bytes |-> FileRecordBytes(hash, size, offset, negate_compression)]

\* FileSize::new for a len below 2^31, FileSize::get and
\* FileSize::compression_inverted.
FileSizeNew(len, invert_compression) ==
    IF HasFlag(len, NEGATE_COMPRESSION) THEN [k |-> "none"]
    ELSE [k |-> "size", bytes |-> LE32(InsertFlag(len, NEGATE_COMPRESSION))]
FileSizeGet(bytes) == RemoveFlag(FromLE32(bytes, 0), NEGATE_COMPRESSION)
CompressionInverted(bytes) == HasFlag(FromLE32(bytes, 0), NEGATE_COMPRESSION)

RecordSizes ==
    {0, 1, 2, 255, 256, 65535, 65536, 16777216, 1073741823, 1073741824, 1073741825}
RecordOffsets == {0, 36, 16777217}
RecordHash == [last |-> 120, last2 |-> 0, len |-> 1, first |-> 120, crc |-> <<25701, 29440>>]

InitRecord ==
    /\ IdleNotHash
    /\ overflow_checks = FALSE
    /\ h_in \in [size : RecordSizes, offset : RecordOffsets, negate : BOOLEAN]
    /\ h_fn = "new"
    /\ h_out = [k |-> "new"]

\* FileRecord::new(hash, size, offset, negate_compression)
CallFileRecordNew ==
    CallHash("FileRecord::new", FileRecordNew(RecordHash, h_in.size, h_in.offset, h_in.negate))

\* FileSize::new(len, invert_compression)
CallFileSizeNew ==
    CallHash("FileSize::new", FileSizeNew(h_in.size, h_in.negate))

NextRecord == CallFileRecordNew \/ CallFileSizeNew

SpecRecord == InitRecord /\ [][NextRecord]_vars

\* size() and negate_compression() of the record or size word a call built.
BuiltSize ==
    IF h_out.k = "record" THEN FileRecordSize(h_out.bytes, 0) ELSE FileSizeGet(h_out.bytes)
BuiltNegate ==
    IF h_out.k = "record" THEN NegateCompression(h_out.bytes, 0)
    ELSE CompressionInverted(h_out.bytes)

(***************************************************************************)
(* C21.  A file record built from (hash, size, offset, negate) with        *)
(* size < 2^30 has bit 30 of its size word set iff negate is true and bits *)
(* 0..29 equal to size: size() gives size and negate_compression() gives   *)
(* negate.                                                                 *)
(***************************************************************************)
C21_RecordKeepsSizeAndNegate ==
    (h_fn \in {"FileRecord::new", "FileSize::new"} /\ h_in.size < NEGATE_COMPRESSION)
        => /\ h_out.k \in {"record", "size"}
           /\ BuiltSize = h_in.size
           /\ BuiltNegate = h_in.negate

\* What does hold: FileRecord::new keeps the size of a record that is not
\* negated and never sets bit 30; FileSize::new keeps every size and always
\* sets bit 30.
RecordNewNeverNegates ==
    (h_fn = "FileRecord::new" /\ h_in.size < NEGATE_COMPRESSION)
        => /\ h_out.k = "record"
           /\ ~BuiltNegate
           /\ BuiltSize = (IF h_in.negate THEN 0 ELSE h_in.size)
FileSizeNewAlwaysInverts ==
    (h_fn = "FileSize::new" /\ h_in.size < NEGATE_COMPRESSION)
        => /\ h_out.k = "size"
           /\ BuiltNegate
           /\ BuiltSize = h_in.size

\* The file-kind flags of the extensions of the files w stores.
StoredKindFlags(w) ==
    UNION {{IF SplitExtensionFirst(f.name)[2] = <<46, 100, 100, 115, 0>> THEN 2 ELSE 1 :
               f \in d.files} : d \in w.dirs}

(***************************************************************************)
(* C22.  BsaWriter::add never panics: a path that cannot be normalized or  *)
(* hashed or that has no directory is refused with an error that leaves    *)
(* the writer as it was, and every valid path, whatever its extension, is  *)
(* stored with its file-kind flag ORed into the file flags.                *)
(***************************************************************************)
C22_AddNeverPanics ==
    /\ w_pc # "panicked"
    /\ \A flag \in StoredKindFlags(w_writer) : HasFlag(w_writer.file_flags, flag)

\* What does hold: the flags of the stored files are in the file flags, and
\* a path that does not normalize is refused without a panic.
StoredFlagsAreSet ==
    \A flag \in StoredKindFlags(w_writer) : HasFlag(w_writer.file_flags, flag)
UnnormalizedPathIsAnError ==
    \A path \in AddPaths :
        ~IsSome(Normalize(path)) => WriterAdd(w_writer, path, <<>>) = [k |-> "err", w |-> w_writer]

(***************************************************************************)
(* The writers as functions of the entries added: h_in holds a writer, a   *)
(* sequence of add calls and a second order for the same calls; a call     *)
(* adds the entries to a new writer in each order and writes it.           *)
(***************************************************************************)
MaxAdds == 3

\* a/x.dds, a/y.nif, b/x.dds, A/X.DDS for the BsaWriter; a, A, a/b, B for the
\* Tes3Writer.
OrderPaths(writer) ==
    IF writer = "BsaWriter"
    THEN {<<97, 47, 120, 46, 100, 100, 115>>, <<97, 47, 121, 46, 110, 105, 102>>,
          <<98, 47, 120, 46, 100, 100, 115>>, <<65, 47, 88, 46, 68, 68, 83>>}
    ELSE {<<97>>, <<65>>, <<97, 47, 98>>, <<66>>}
OrderData == {<<>>, <<1>>}
Orders(n) == {f \in [1..n -> 1..n] : \A i, j \in 1..n : f[i] = f[j] => i = j}
OrderInputs(writer) ==
    UNION {{[writer |-> writer, adds |-> adds, order |-> order] :
               adds \in [1..n -> [path : OrderPaths(writer), data : OrderData]],
               order \in Orders(n)} : n \in 1..MaxAdds}

\* The writer after the add calls of `adds` from the i-th on, and what
\* write_to then writes.
RECURSIVE BsaAddAll(_, _, _)
BsaAddAll(w, adds, i) ==
    IF i > Len(adds) THEN [k |-> "ok", w |-> w]
    ELSE Only({IF r.k = "panic" THEN r ELSE BsaAddAll(r.w, adds, i + 1) :
                  r \in {WriterAdd(w, adds[i].path, adds[i].data)}})
RECURSIVE Tes3AddAll(_, _, _)
Tes3AddAll(w, adds, i) ==
    IF i > Len(adds) THEN w
    ELSE Only({Tes3AddAll(r.w, adds, i + 1) :
                  r \in {AddInner(w, adds[i].path, adds[i].data)}})
WriteAfterAdds(writer, adds) ==
    IF writer = "BsaWriter"
    THEN Only({IF r.k = "panic" THEN [k |-> "panic"]
               ELSE [k |-> "bytes", bytes |-> WriteToInner(Tes4, r.w)] :
                  r \in {BsaAddAll(NewWriter, adds, 1)}})
    ELSE [k |-> "bytes", bytes |-> Tes3WriteToBytes(Tes3AddAll(NewTes3Writer, adds, 1))]

InitOrder ==
    /\ IdleNotHash
    /\ overflow_checks = FALSE
    /\ h_in \in OrderInputs("BsaWriter") \cup OrderInputs("Tes3Writer")
    /\ h_fn = "new"
    /\ h_out = [k |-> "new"]

\* add of every entry, then write_to, in the order of h_in.adds and in the
\* order h_in.order puts them in.
CallWriteInBothOrders(writer) ==
    /\ h_in.writer = writer
    /\ CallHash(writer,
                [k |-> "wrote",
                 first |-> WriteAfterAdds(writer, h_in.adds),
                 second |-> WriteAfterAdds(writer,
                                [i \in 1..Len(h_in.adds) |-> h_in.adds[h_in.order[i]]])])

NextOrder ==
    \/ CallWriteInBothOrders("BsaWriter")
    \/ CallWriteInBothOrders("Tes3Writer")

SpecOrder == InitOrder /\ [][NextOrder]_vars

\* The key a writer stores a path under: the (dir_hash, file_hash) pair of
\* the BsaWriter, the stored name of the Tes3Writer; and the directory the
\* BsaWriter files the path under, with the name it would store for it.
StoredDir(path) ==
    Only({[hash |-> FromDirname(SubSeq(n, 1, LastPos(n, 92) - 1)),
           name |-> SubSeq(n, 1, LastPos(n, 92) - 1)] :
             n \in {Unwrap(Normalize(path))}})
StoredKey(writer, path) ==
    IF writer = "BsaWriter"
    THEN Only({<<StoredDir(path).hash, FromFilename(SubSeq(n, LastPos(n, 92) + 1, Len(n)))>> :
                  n \in {Unwrap(Normalize(path))}})
    ELSE StoredName(path)
DistinctPaths ==
    \A i, j \in 1..Len(h_in.adds) : h_in.adds[i].path = h_in.adds[j].path => i = j
DistinctKeys ==
    \A i, j \in 1..Len(h_in.adds) :
        /\ StoredKey(h_in.writer, h_in.adds[i].path) = StoredKey(h_in.writer, h_in.adds[j].path)
            => i = j
        /\ (h_in.writer = "BsaWriter"
            /\ StoredDir(h_in.adds[i].path).hash = StoredDir(h_in.adds[j].path).hash)
            => StoredDir(h_in.adds[i].path).name = StoredDir(h_in.adds[j].path).name

RawBlockLens ==
    IF r_raw.k = "ok"
    THEN UNION {{f.block_len : f \in {d.files[j] : j \in 1..Len(d.files)}} :
                   d \in {r_raw.dirs[i] : i \in 1..Len(r_raw.dirs)}}
    ELSE {}
BsaBlockLens ==
    IF r_archive.k = "ok"
    THEN UNION {{f.raw_size : f \in {d.files[j] : j \in 1..Len(d.files)}} :
                   d \in {r_archive.dirs[i] : i \in 1..Len(r_archive.dirs)}}
    ELSE {}

(***************************************************************************)
(* C24.  The length a file block is read with is the record's size word    *)
(* with bit 30 cleared: it never exceeds 2^30 - 1, and a record with bit   *)
(* 30 set is read with the length of the same record with the bit clear.   *)
(***************************************************************************)
C24_BlockLenIsBits0To29 ==
    \A len \in RawBlockLens \cup BsaBlockLens : len < NEGATE_COMPRESSION

\* What does hold: BsaArchive reads with bits 0..29 of the size word, and
\* RawArchive with the whole size word, bit 30 included.
BsaArchiveMasksBit30 == \A len \in BsaBlockLens : len < NEGATE_COMPRESSION
RawArchiveKeepsBit30 ==
    r_raw.k = "ok" =>
        \A i \in 1..Len(r_raw.dirs) : \A j \in 1..Len(r_raw.dirs[i].files) :
            (r_raw.dirs[i].files[j].block_len >= NEGATE_COMPRESSION)
                <=> (IsSome(r_raw.dirs[i].files[j].compression)
                        # HasFlag(FromLE32(w_sink, 12), COMPRESSED))

\* The offsets of the file records of the emitted archive, in the order of
\* the records, and the files the writer emitted, in the same order.
EmittedRecordOffsets ==
    Flatten([k \in 1..FromLE32(w_sink, 16) |->
        [j \in 1..EmittedFolderCount(k) |-> EmittedRecordsAt(k) + SizeOfFileRecord * (j - 1)]])
EmittedFiles == FilesInOrder(SortedDirs(w_writer))

\* The bytes emitted for the i-th file, and the sink position they begin
\* at: the blocks are the last bytes of the sink.
EmittedBlockOf(i) ==
    EmittedBlock(w_fmt, EmittedFiles[i], HasFlag(w_writer.archive_flags, COMPRESSED),
                 w_fmt.can_embed /\ HasFlag(w_writer.archive_flags, EMBED_FILENAMES))
EmittedBlockBegin(i) ==
    Len(w_sink)
    - SumSeq([j \in 1..(Len(EmittedFiles) - i + 1) |-> Len(EmittedBlockOf(i + j - 1))])

(***************************************************************************)
(* C25.  In the back-patched file records of an emitted archive every      *)
(* record's offset is the sink position at which the file's block (name if *)
(* embedded, uncompressed length if compressed, payload) begins and its    *)
(* size is the number of bytes emitted for the file, so that the blocks of *)
(* consecutive records do not overlap.                                     *)
(***************************************************************************)
C25_RecordsDescribeBlocks ==
    w_pc = "written" =>
        /\ Len(EmittedRecordOffsets) = Len(EmittedFiles)
        /\ \A i \in 1..Len(EmittedFiles) :
              /\ FileRecordOffset(w_sink, EmittedRecordOffsets[i]) = EmittedBlockBegin(i)
              /\ FileRecordSize(w_sink, EmittedRecordOffsets[i]) = Len(EmittedBlockOf(i))

\* What does hold: the records are right when the archive is neither
\* compressed nor has embedded names; every record's size is the count the
\* payload loop noted, which leaves out the name and the length; and the
\* offsets are right unless the archive is LZ4-compressed.
EmittedPlain ==
    /\ ~HasFlag(w_writer.archive_flags, COMPRESSED)
    /\ ~(w_fmt.can_embed /\ HasFlag(w_writer.archive_flags, EMBED_FILENAMES))
PlainRecordsDescribeBlocks ==
    (w_pc = "written" /\ EmittedPlain) =>
        \A i \in 1..Len(EmittedFiles) :
            /\ FileRecordOffset(w_sink, EmittedRecordOffsets[i]) = EmittedBlockBegin(i)
            /\ FileRecordSize(w_sink, EmittedRecordOffsets[i]) = Len(EmittedBlockOf(i))
RecordSizeIsNotedSize ==
    w_pc = "written" =>
        \A i \in 1..Len(EmittedFiles) :
            FileRecordSize(w_sink, EmittedRecordOffsets[i])
                = NotedSize(w_fmt, EmittedFiles[i], HasFlag(w_writer.archive_flags, COMPRESSED))
OffsetsRightUnlessLz4 ==
    (w_pc = "written"
     /\ ~(HasFlag(w_writer.archive_flags, COMPRESSED) /\ w_fmt.compression = "lz4")) =>
        \A i \in 1..Len(EmittedFiles) :
            FileRecordOffset(w_sink, EmittedRecordOffsets[i]) = EmittedBlockBegin(i)

(***************************************************************************)
(* Archives whose directory names have Windows-1252 content beyond ASCII,  *)
(* well-formed or with the offset of the first folder record off by one,   *)
(* opened with BsaArchive and with RawArchive.  w_writer says which of the *)
(* two the archive is.                                                     *)
(***************************************************************************)
\* The directory names a, e-acute (byte 233), euro (byte 128) and b u-umlaut
\* (bytes 98, 252), and the writer state of the archive that has the
\* directories of the names in S, each with the file x.dds of content [1].
DirNames == {<<97>>, <<233>>, <<128>>, <<98, 252>>}
NameWriter(S) ==
    [NewWriter EXCEPT !.dirs =
        {[hash |-> DirHashFields(name).h,
          name |-> Append(name, 0),
          files |-> {[hash |-> FromFilename(<<120, 46, 100, 100, 115>>).h,
                      name |-> <<120, 46, 100, 100, 115, 0>>,
                      data |-> <<1>>]}] : name \in S}]

\* The archive with the offset of its first folder record one too large.
WithFolderOffsetOff(fmt, bytes) ==
    Only({Overwrite(bytes, at, LE32(FromLE32(bytes, at) + 1)) :
             at \in {SizeOfRawHeader + (IF fmt.folder_record = 24 THEN 16 ELSE 12)}})

NameArchives(fmt) ==
    UNION {{[kind |-> "well-formed", bytes |-> a],
            [kind |-> "bad folder offset", bytes |-> WithFolderOffsetOff(fmt, a)]} :
              a \in {LayoutArchive(fmt, SortedDirs(NameWriter(S)), dn, fn) :
                        S \in (SUBSET DirNames) \ {{}},
                        dn \in BOOLEAN, fn \in BOOLEAN}}

InitNames ==
    /\ IdleNotRead
    /\ w_fmt \in Formats
    /\ w_pc = "written"
    /\ \E a \in NameArchives(w_fmt) : w_writer = a.kind /\ w_sink = a.bytes
    /\ r_archive = [k |-> "none"]
    /\ r_entry = [k |-> "none"]
    /\ r_raw = [k |-> "none"]
    /\ x_pos = 0
    /\ x_borrowed = FALSE
    /\ x_failed = FALSE

SpecNames == InitNames /\ [][NextOpen]_vars

\* The names of the directories of the archive are ASCII.
SinkFolderBlockAt(k) ==
    IF k = 1 THEN SinkBlocksAt
    ELSE EmittedRecordsAt(k - 1) + SizeOfFileRecord * EmittedFolderCount(k - 1)
SinkDirNamesAscii ==
    ~SinkHasFlag(INCLUDE_DIRNAMES)
    \/ \A k \in 1..SinkFolders :
          \A i \in 1..w_sink[SinkFolderBlockAt(k) + 1] :
              w_sink[SinkFolderBlockAt(k) + 1 + i] < 128

(***************************************************************************)
(* C26.  BsaArchive::new tracks in read_position the bytes it has consumed *)
(* from the source, whatever the Windows-1252 content of the directory     *)
(* names, so that every well-formed archive opens; an archive with a       *)
(* folder offset that does not match fails to open with BadOffset.         *)
(***************************************************************************)
C26_ReadPositionIsBytesConsumed ==
    r_archive.k # "none" =>
        /\ w_writer = "well-formed" => r_archive.k = "ok"
        /\ w_writer = "bad folder offset" => r_archive = Err("BadOffset")

\* What does hold: a well-formed archive opens when its directory names are
\* ASCII or not included, and a wrong folder offset is always BadOffset.
AsciiNamesOpen ==
    (r_archive.k # "none" /\ w_writer = "well-formed" /\ SinkDirNamesAscii)
        => r_archive.k = "ok"
BadFolderOffsetIsRefused ==
    (r_archive.k # "none" /\ w_writer = "bad folder offset") => r_archive = Err("BadOffset")

(***************************************************************************)
(* C27.  In _extract3 no output file is written before the driver has      *)
(* finished reading every file block: the write pool gets its first buffer *)
(* only after the sweep has ended.                                         *)
(***************************************************************************)
C27_NoWriteBeforeSweepEnds ==
    e_strategy = 3 =>
        /\ e_writes # {} => (e_pc \in {"recv", "join", "done"} /\ e_at > Len(Plan))
        /\ (e_pc = "sweep" /\ e_at <= Len(Plan)) => e_fs = e_hist.out

\* The write pool has written a file while the driver is in its while loop.
C27_Witness ==
    /\ e_strategy = 3
    /\ e_pc = "recv"
    /\ e_at > Len(Plan)
    /\ e_fs # e_hist.out

\* A decompression task runs while the driver is still in its sweep.
DecompressDuringSweep ==
    /\ e_strategy = 3
    /\ e_pc = "sweep"
    /\ e_at <= Len(Plan)
    /\ e_running # {}

(***************************************************************************)
(* C28.  In _extract2 and _extract3 no task panics on a channel send: the  *)
(* receiver is alive whenever a task sends, in every interleaving, also    *)
(* when the driver has returned early on a failed read.                    *)
(***************************************************************************)
C28_NoSendPanics == e_strategy \in {2, 3} => e_hist.panics = 0

\* What does hold: a send panics only after the driver has returned from
\* its sweep with an error, and never while the driver is still there.
SendPanicsOnlyAfterEarlyReturn ==
    (e_strategy \in {2, 3} /\ e_hist.panics > 0)
        => (e_pc = "done" /\ e_result.k = "err" /\ e_at <= Len(Plan))

(***************************************************************************)
(* The threads of _extract3 under fair scheduling: the driver thread runs  *)
(* its loops and its joins, a worker of the decompress pool takes a queued *)
(* job and runs the job it has taken, and a worker of the write pool runs  *)
(* the job it has.  Each of them is an operating-system thread that is     *)
(* never blocked but on the channel or the queue the action's guard names. *)
(***************************************************************************)
FairExt ==
    /\ WF_vars(SweepFile)
    /\ WF_vars(WorkerTake)
    /\ WF_vars(\E job \in e_running : WorkerDecompress(job))
    /\ WF_vars(DriverRecv)
    /\ WF_vars(DriverRecvEnd)
    /\ WF_vars(\E job \in e_writes : WorkerWrite(job))
    /\ WF_vars(DriverJoin)

\* The steps of a client that opens the archive and calls extract3.
NextExt3 ==
    \/ RawNew
    \/ ExtractBegin(3)
    \/ SweepFile
    \/ WorkerTake
    \/ \E job \in e_running : WorkerDecompress(job)
    \/ DriverRecv
    \/ DriverRecvEnd
    \/ \E job \in e_writes : WorkerWrite(job)
    \/ DriverJoin

SpecExtFair == InitExt /\ [][NextExt3]_vars /\ FairExt

\* The closures _extract3 hands to its decompress pool when every read
\* succeeds, one for each file step of the plan.
PlanJobs ==
    {JobOf(r_raw, i, Plan[i],
           FileBlockOf(w_sink, r_raw.dirs[Plan[i].k].files[Plan[i].j].block_offset,
                       r_raw.embed_file_names, r_raw.dirs[Plan[i].k].files[Plan[i].j])) :
        i \in {n \in 1..Len(Plan) : Plan[n].op = "file"}}

\* The jobs whose block decompresses, and of these the ones whose write
\* task fails on the file system.
DecompressedJobs == {job \in PlanJobs : Decompress(job.fb, job.compression).k = "ok"}
WriteFails(job) == job.parent \in e_bad \/ job.path \in e_bad

\* In how many places of _extract3 the job or the buffer of step id is:
\* queued, running, on the channel, or with a write task.
PlacesOf(id) ==
    Cardinality({i \in 1..Len(e_queue) : e_queue[i].id = id})
        + Cardinality({i \in 1..Len(e_unc) : e_unc[i].id = id})
        + Cardinality({job \in e_running : job.id = id})
        + Cardinality({job \in e_writes : job.id = id})

\* _extract3 has returned from a run in which every read has succeeded.
Returned3 == e_strategy = 3 /\ e_pc = "done" /\ EveryBlockReads

\* What _extract3 leaves at its return: no job and no buffer is left, every
\* buffer whose write the file system accepts is a file of the output
\* directory, and every failed decompression and every failed write has put
\* one error on the channel.
AllWrittenAtReturn ==
    /\ e_queue = <<>> /\ e_running = {} /\ e_unc = <<>> /\ e_writes = {}
    /\ e_result.pending = 0
    /\ \A job \in DecompressedJobs :
          ~WriteFails(job) =>
              \E f \in e_result.fs.files : \E other \in DecompressedJobs :
                  /\ f.path = job.path
                  /\ other.path = job.path
                  /\ f.data = Decompress(other.fb, other.compression).data
    /\ \A job \in DecompressedJobs :
          WriteFails(job) => \E err \in 1..Len(e_result.channel) :
                                e_result.channel[err].id = job.id
    /\ Len(e_result.channel)
          = Cardinality(PlanJobs \ DecompressedJobs)
              + Cardinality({job \in DecompressedJobs : WriteFails(job)})

(***************************************************************************)
(* C29.  If every file-block read succeeds, _extract3 terminates under     *)
(* fair scheduling of its threads: the receive loop ends once the          *)
(* decompress pool has no job left, and at the return every successfully   *)
(* decompressed buffer has been with exactly one write task, which has     *)
(* run to its end.                                                         *)
(***************************************************************************)
C29_Extract3Terminates ==
    /\ (e_strategy = 3 /\ e_pc = "sweep" /\ EveryBlockReads) ~> (e_pc = "done")
    /\ [](Returned3 => AllWrittenAtReturn)
    /\ [](e_strategy = 3 => \A id \in 1..Len(Plan) : PlacesOf(id) <= 1)
    /\ []((e_strategy = 3 /\ e_pc = "join") => (e_queue = <<>> /\ e_running = {} /\ e_unc = <<>>))

C29_Witness ==
    /\ Returned3
    /\ e_result.k = "ok"
    /\ Cardinality(DecompressedJobs) >= 2
    /\ \A job \in DecompressedJobs : \E f \in e_fs.files : f.path = job.path

(***************************************************************************)
(* The lookup specification: an archive whose records carry the hashes of  *)
(* its names is opened with RawArchive, and one path is looked up in it    *)
(* with by_name.  w_writer says in which order the archive has its         *)
(* directories.                                                            *)
(***************************************************************************)
\* The directory names "", a, b and a\b, and the file names x.dds and y.nif.
FindDirNames == {<<>>, <<97>>, <<98>>, <<97, 92, 98>>}
FindFileNames == {<<120, 46, 100, 100, 115>>, <<121, 46, 110, 105, 102>>}

\* The writer state of the archive that has the directories of the names
\* in S, each with the files of the names in F.
FindWriter(S, F) ==
    [NewWriter EXCEPT !.dirs =
        {[hash |-> HashDirectoryNameUnchecked(name).h,
          name |-> Append(name, 0),
          files |-> {[hash |-> HashFileNameUnchecked(SplitExtension(f)[1],
                                                     SplitExtension(f)[2]).h,
                      name |-> Append(f, 0),
                      data |-> <<1>>] : f \in F}] : name \in S}]

Reversed(s) == [i \in 1..Len(s) |-> s[Len(s) + 1 - i]]

FindArchives(fmt) ==
    UNION {{[kind |-> "ascending", bytes |-> LayoutArchive(fmt, ds, TRUE, TRUE)],
            [kind |-> "descending", bytes |-> LayoutArchive(fmt, Reversed(ds), TRUE, TRUE)]} :
              ds \in {SortedDirs(FindWriter(S, F)) :
                         S \in (SUBSET FindDirNames) \ {{}},
                         F \in (SUBSET FindFileNames) \ {{}}}}

InitFind ==
    /\ IdleIter /\ IdleTes3 /\ IdleExt /\ IdleFo4
    /\ overflow_checks \in BOOLEAN
    /\ h_in = <<>>
    /\ h_fn = "new"
    /\ h_out = [k |-> "new"]
    /\ w_fmt \in Formats
    /\ w_pc = "written"
    /\ \E a \in FindArchives(w_fmt) : w_writer = a.kind /\ w_sink = a.bytes
    /\ r_archive = [k |-> "none"]
    /\ r_entry = [k |-> "none"]
    /\ r_raw = [k |-> "none"]
    /\ x_pos = 0
    /\ x_borrowed = FALSE
    /\ x_failed = FALSE

\* slice::binary_search_by_key(&key, |x| x.hash) between left and right:
\* the index of an element whose hash is key, counted from 0, or None.
RECURSIVE BinarySearchByKey(_, _, _, _)
BinarySearchByKey(xs, key, left, right) ==
    IF left >= right THEN None
    ELSE Only({IF HashLess(xs[mid + 1].hash, key)
               THEN BinarySearchByKey(xs, key, mid + 1, right)
               ELSE IF HashLess(key, xs[mid + 1].hash)
               THEN BinarySearchByKey(xs, key, left, mid)
               ELSE Some(mid) :
                  mid \in {left + ((right - left) \div 2)}})

\* A search that takes the first element whatever its hash.
BinarySearchFirst(xs, key, left, right) == IF left >= right THEN None ELSE Some(left)

\* RawArchive::find_file_by_name, and with it BsaArchive::by_name, whose
\* entry is the index: none, the index, or the panic of hash_file_path.
FindFileByName(raw, name) ==
    Only({IF hp.k # "some" THEN hp
          ELSE Only({IF ~IsSome(d) THEN HNone
                     ELSE Only({IF ~IsSome(f) THEN HNone
                                ELSE HSome(Index(Unwrap(d), Unwrap(f))) :
                                   f \in {BinarySearchByKey(raw.dirs[Unwrap(d) + 1].files,
                                              hp.h[2], 0,
                                              Len(raw.dirs[Unwrap(d) + 1].files))}}) :
                        d \in {BinarySearchByKey(raw.dirs, hp.h[1], 0, Len(raw.dirs))}}) :
             hp \in {HashFilePath(name)}})

\* EntriesImpl::name(index) for RawArchive
EntriesName(raw, index) ==
    raw.dirs[index.folder + 1].name \o <<47>>
        \o Unwrap(raw.dirs[index.folder + 1].files[index.file + 1].name)

\* The valid indices of raw.
ValidIndices(raw) ==
    UNION {{Index(k - 1, j - 1) : j \in 1..Len(raw.dirs[k].files)} : k \in 1..Len(raw.dirs)}

\* The paths a client looks up in an opened archive: the names the archive
\* reports, and a\x.dds, A/X.DDS, b/y.nif, a/b/x.dds, c/x.dds, a/z.dds,
\* x.dds and /x.dds.
LookupPaths(raw) ==
    IF raw.k # "ok" THEN {}
    ELSE {EntriesName(raw, index) : index \in ValidIndices(raw)}
    \cup {<<97, 92, 120, 46, 100, 100, 115>>, <<65, 47, 88, 46, 68, 68, 83>>,
          <<98, 47, 121, 46, 110, 105, 102>>, <<97, 47, 98, 47, 120, 46, 100, 100, 115>>,
          <<99, 47, 120, 46, 100, 100, 115>>, <<97, 47, 122, 46, 100, 100, 115>>,
          <<120, 46, 100, 100, 115>>, <<47, 120, 46, 100, 100, 115>>}

\* archive.by_name(name)
ByName(name) ==
    /\ r_raw.k = "ok"
    /\ h_fn = "new"
    /\ h_in' = name
    /\ h_fn' = "by_name"
    /\ h_out' = FindFileByName(r_raw, name)
    /\ UNCHANGED <<overflow_checks, othersHash>>

NextFind ==
    \/ RawNew
    \/ \E name \in LookupPaths(r_raw) : ByName(name)

SpecFind == InitFind /\ [][NextFind]_vars

\* The directories of raw and the files of each are in ascending order of
\* their hashes, which makes the hashes pairwise distinct.
HashOrdered(raw) ==
    /\ \A k \in 1..(Len(raw.dirs) - 1) : HashLess(raw.dirs[k].hash, raw.dirs[k + 1].hash)
    /\ \A k \in 1..Len(raw.dirs) : \A j \in 1..(Len(raw.dirs[k].files) - 1) :
          HashLess(raw.dirs[k].files[j].hash, raw.dirs[k].files[j + 1].hash)

\* The pair of hashes of path is the pair of an entry of raw.
PairPresent(raw, path) ==
    /\ HashFilePath(path).k = "some"
    /\ \E index \in ValidIndices(raw) :
          /\ raw.dirs[index.folder + 1].hash = HashFilePath(path).h[1]
          /\ raw.dirs[index.folder + 1].files[index.file + 1].hash = HashFilePath(path).h[2]

\* by_name has been called on an opened archive in hash order.
LookedUp == r_raw.k = "ok" /\ h_fn = "by_name" /\ HashOrdered(r_raw)

(***************************************************************************)
(* C30.  In an opened archive whose directories and files are in ascending *)
(* hash order, by_name of the name the archive reports for index i is the  *)
(* entry of index i, and by_name of a path whose pair of hashes is not in  *)
(* the archive is none.                                                    *)
(***************************************************************************)
C30_ByNameFindsReportedName ==
    LookedUp =>
        /\ \A index \in ValidIndices(r_raw) :
              h_in = EntriesName(r_raw, index) => h_out = HSome(index)
        /\ ~PairPresent(r_raw, h_in) => h_out = HNone

\* The same for the entries of the directories that have a name, and for
\* the paths that are not in the archive.
ByNameFindsInNamedDirectories ==
    LookedUp =>
        /\ \A index \in ValidIndices(r_raw) :
              (h_in = EntriesName(r_raw, index) /\ r_raw.dirs[index.folder + 1].name # <<>>)
                  => h_out = HSome(index)
        /\ ~PairPresent(r_raw, h_in) => h_out = HNone
        /\ h_out.k = "some" =>
              /\ h_out.h \in ValidIndices(r_raw)
              /\ PairPresent(r_raw, h_in)

\* The entries of the directory of the empty name are not found by the name
\* the archive reports for them.
RootEntriesAreNotFound ==
    LookedUp =>
        \A index \in ValidIndices(r_raw) :
            (h_in = EntriesName(r_raw, index) /\ r_raw.dirs[index.folder + 1].name = <<>>)
                => h_out = HNone

====
